---- MODULE Spec2Model ----
(***************************************************************************)
(* Model of the selection engine of the daily news pipeline:               *)
(*   workflow/selection/dedup.py      canonicalize_url, normalize_title,   *)
(*                                    title_similarity,                     *)
(*                                    choose_better_article,                *)
(*                                    deduplicate_articles                  *)
(*   workflow/selection/diversity.py  enforce_diversity_quotas              *)
(*   workflow/mainflow.py             find_favorite_article (the driver)    *)
(*                                                                         *)
(* Python strings are modelled as sequences of one-character strings, so   *)
(* that parsing, decoding and rebuilding of URLs and titles is computed    *)
(* the way the library routines compute it.                                *)
(***************************************************************************)
EXTENDS Integers, Sequences, FiniteSets, TLC

VARIABLES
    pc,               \* position of the operation under check
    url,              \* canonicalize_url: the URL given
    variant,          \* canonicalize_url: a second URL, a variant of url
    kind,             \* how variant differs from url
    canon,            \* canonicalize_url(url)
    canon_again,      \* canonicalize_url(canon)
    canon_variant,    \* canonicalize_url(variant)
    articles,         \* the list handed to the operation (dedup input / quota pool)
    seen_urls,        \* deduplicate_articles: canonical URL -> article
    seen_titles,      \* deduplicate_articles: normalized title -> article
    unique_articles,  \* deduplicate_articles: the output list
    min_quotas,       \* diversity_quotas.min, in the order of the configuration
    max_quotas,       \* diversity_quotas.max
    target_count,     \* daily_target
    selected,         \* enforce_diversity_quotas: the slate returned
    all_evaluated_articles, \* find_favorite_article: the evaluated candidates
    filtered_articles,      \* find_favorite_article: those no drop_if rule drops
    drop_if,          \* selection.llm_tagging.drop_if of the configuration
    scorer,           \* calculate_score: its arguments and what it returns
    evaluator,        \* find_favorite_article: one source group under evaluation
    FEED_METRICS,     \* mainflow.FEED_METRICS and the run that fills it
    sampler,          \* stratified_sample_with_priority: arguments and locals
    github,           \* GitHubClient._make_request_with_retry: one call
    run               \* mainflow.execute: the registry, the cache, the fetched articles

vars == << pc, url, variant, kind, canon, canon_again, canon_variant,
           articles, seen_urls, seen_titles, unique_articles,
           min_quotas, max_quotas, target_count, selected,
           all_evaluated_articles, filtered_articles, drop_if,
           scorer, evaluator, FEED_METRICS, sampler, github, run >>

urlVars == << url, variant, kind, canon, canon_again, canon_variant >>
dedupVars == << seen_urls, seen_titles, unique_articles >>
quotaVars == << min_quotas, max_quotas, target_count, selected >>
driverVars == << all_evaluated_articles, filtered_articles, drop_if >>
componentVars == << scorer, evaluator, FEED_METRICS, sampler, github, run >>

(***************************************************************************)
(* Characters and strings                                                  *)
(***************************************************************************)

\* The printable ASCII characters, code 32 (space) to 126 (~), in code order.
\* The double quote (34), the backslash (92) and the backtick (96) keep their
\* places under a name; none occurs in the URLs and titles of the model.
Printable ==
    << " ", "!", "<quote>", "#", "$", "%", "&", "'", "(", ")", "*", "+", ",", "-", ".", "/",
       "0", "1", "2", "3", "4", "5", "6", "7", "8", "9", ":", ";", "<", "=", ">", "?",
       "@", "A", "B", "C", "D", "E", "F", "G", "H", "I", "J", "K", "L", "M", "N", "O",
       "P", "Q", "R", "S", "T", "U", "V", "W", "X", "Y", "Z", "[", "<backslash>", "]", "^", "_",
       "<backtick>", "a", "b", "c", "d", "e", "f", "g", "h", "i", "j", "k", "l", "m", "n", "o",
       "p", "q", "r", "s", "t", "u", "v", "w", "x", "y", "z", "{", "|", "}", "~" >>

\* ord(c), as a table computed once
OrdTable ==
    [c \in { Printable[i] : i \in 1..Len(Printable) } |->
        31 + (CHOOSE i \in 1..Len(Printable) : Printable[i] = c)]

Ord(c) == OrdTable[c]

Chr(n) == Printable[n - 31]

IsUpper(c) == Ord(c) \in 65..90

IsAlpha(c) == Ord(c) \in 65..90 \/ Ord(c) \in 97..122

IsDigit(c) == Ord(c) \in 48..57

IsHex(c) == IsDigit(c) \/ Ord(c) \in 65..70 \/ Ord(c) \in 97..102

HexVal(c) ==
    IF IsDigit(c) THEN Ord(c) - 48
    ELSE IF Ord(c) \in 65..70 THEN Ord(c) - 55
    ELSE Ord(c) - 87

\* str.lower() on ASCII text
lower(s) == [i \in 1..Len(s) |-> IF IsUpper(s[i]) THEN Chr(Ord(s[i]) + 32) ELSE s[i]]

\* str.find(c, start) with 1-based positions: 0 when c does not occur
find(s, c, start) ==
    IF \E i \in start..Len(s) : s[i] = c
    THEN CHOOSE i \in start..Len(s) : s[i] = c /\ \A j \in start..(i - 1) : s[j] # c
    ELSE 0

\* str.rfind(c): 0 when c does not occur
rfind(s, c) ==
    IF \E i \in 1..Len(s) : s[i] = c
    THEN CHOOSE i \in 1..Len(s) : s[i] = c /\ \A j \in (i + 1)..Len(s) : s[j] # c
    ELSE 0

\* Python's order on strings: by code point, a proper prefix first
RECURSIVE str_less(_, _)
str_less(s, t) ==
    IF t = << >> THEN FALSE
    ELSE IF s = << >> THEN TRUE
    ELSE IF s[1] = t[1] THEN str_less(Tail(s), Tail(t))
    ELSE Ord(s[1]) < Ord(t[1])

\* str.split(sep) for a one-character separator
RECURSIVE split(_, _)
split(s, sep) ==
    LET i == find(s, sep, 1)
    IN  IF i = 0 THEN << s >>
        ELSE << SubSeq(s, 1, i - 1) >> \o split(SubSeq(s, i + 1, Len(s)), sep)

\* sep.join(parts)
RECURSIVE join(_, _)
join(parts, sep) ==
    IF parts = << >> THEN << >>
    ELSE IF Len(parts) = 1 THEN parts[1]
    ELSE parts[1] \o sep \o join(Tail(parts), sep)

\* str.replace(old, new) for a one-character old
replace(s, old, new) == [i \in 1..Len(s) |-> IF s[i] = old THEN new ELSE s[i]]

\* Op applied to the value of v, v being evaluated once (a local variable
\* of the code: assigned once, read many times)
Eval(v, Op(_)) == CHOOSE r \in { Op(x) : x \in { v } } : TRUE

(***************************************************************************)
(* urllib.parse, as canonicalize_url uses it (CPython 3.11).  The inputs   *)
(* of the model are printable ASCII without brackets, so that the          *)
(* ValueError path of urlparse and the non-ASCII branch of unquote are     *)
(* not taken.                                                              *)
(***************************************************************************)

\* urllib.parse.unquote: %XX with two hex digits becomes the character of
\* that code, a "%" not followed by two hex digits stays
RECURSIVE unquote(_)
unquote(s) ==
    IF s = << >> THEN << >>
    ELSE IF s[1] = "%" /\ Len(s) >= 3 /\ IsHex(s[2]) /\ IsHex(s[3])
    THEN << Chr(16 * HexVal(s[2]) + HexVal(s[3])) >> \o unquote(SubSeq(s, 4, Len(s)))
    ELSE << s[1] >> \o unquote(Tail(s))

\* the schemes of urllib.parse.uses_params / uses_netloc the model's URLs can carry
uses_params == { << >>, << "h", "t", "t", "p" >>, << "h", "t", "t", "p", "s" >> }

uses_netloc == { << >>, << "h", "t", "t", "p" >>, << "h", "t", "t", "p", "s" >> }

IsSchemeChar(c) == IsAlpha(c) \/ IsDigit(c) \/ c \in {"+", "-", "."}

\* urlsplit, first step: the scheme (lowercased) and what follows its ":"
split_scheme(u) ==
    Eval(find(u, ":", 1), LAMBDA i :
        IF i > 1 /\ IsAlpha(u[1]) /\ \A j \in 1..(i - 1) : IsSchemeChar(u[j])
        THEN [scheme |-> lower(SubSeq(u, 1, i - 1)), rest |-> SubSeq(u, i + 1, Len(u))]
        ELSE [scheme |-> << >>, rest |-> u])

\* _splitnetloc: after "//", the netloc runs to the first of "/", "?", "#"
split_netloc(rest) ==
    IF Len(rest) >= 2 /\ rest[1] = "/" /\ rest[2] = "/"
    THEN Eval({ j \in 3..Len(rest) : rest[j] \in {"/", "?", "#"} }, LAMBDA stops :
            Eval(IF stops = {} THEN Len(rest) + 1
                 ELSE CHOOSE j \in stops : \A k \in stops : j <= k, LAMBDA delim :
                [netloc |-> SubSeq(rest, 3, delim - 1),
                 rest |-> SubSeq(rest, delim, Len(rest))]))
    ELSE [netloc |-> << >>, rest |-> rest]

\* s.split(c, 1): the part before the first c and the part after it
split_once(s, c) ==
    Eval(find(s, c, 1), LAMBDA i :
        IF i = 0 THEN [head |-> s, tail |-> << >>]
        ELSE [head |-> SubSeq(s, 1, i - 1), tail |-> SubSeq(s, i + 1, Len(s))])

\* _splitparams: the first ";" of the last path segment
split_params(scheme, path0) ==
    Eval(rfind(path0, "/"), LAMBDA slash :
        Eval(find(path0, ";", IF slash = 0 THEN 1 ELSE slash), LAMBDA semi :
            IF scheme \in uses_params /\ semi > 0
            THEN [path |-> SubSeq(path0, 1, semi - 1),
                  params |-> SubSeq(path0, semi + 1, Len(path0))]
            ELSE [path |-> path0, params |-> << >>]))

\* urllib.parse.urlparse: (scheme, netloc, path, params, query, fragment)
urlparse(u) ==
    Eval(split_scheme(u), LAMBDA s1 :
    Eval(split_netloc(s1.rest), LAMBDA s2 :
    Eval(split_once(s2.rest, "#"), LAMBDA s3 :
    Eval(split_once(s3.head, "?"), LAMBDA s4 :
    Eval(split_params(s1.scheme, s4.head), LAMBDA s5 :
        [scheme |-> s1.scheme, netloc |-> s2.netloc, path |-> s5.path,
         params |-> s5.params, query |-> s4.tail, fragment |-> s3.tail])))))

\* urllib.parse.parse_qsl with keep_blank_values=False, strict_parsing=False:
\* the (name, value) pairs in order; a field without "=" or with an empty
\* value is left out; "+" is a space; names and values are unquoted
parse_qsl(qs) ==
    LET Pair(f) ==
            Eval(find(f, "=", 1), LAMBDA e :
                IF e = 0 \/ e = Len(f) THEN << >>
                ELSE << [k |-> unquote(replace(SubSeq(f, 1, e - 1), "+", " ")),
                         v |-> unquote(replace(SubSeq(f, e + 1, Len(f)), "+", " "))] >>)
    IN  Eval(IF qs = << >> THEN << >> ELSE split(qs, "&"), LAMBDA fields :
            LET F[n \in 0..Len(fields)] ==
                    IF n = 0 THEN << >> ELSE F[n - 1] \o Pair(fields[n])
            IN  F[Len(fields)])

\* urllib.parse.parse_qs: a dict name -> list of values; modelled as the
\* sequence of [k, v] in order of first appearance of the name (the dict's order)
parse_qs(qs) ==
    LET Add(d, p) ==
            IF \E i \in 1..Len(d) : d[i].k = p.k
            THEN [i \in 1..Len(d) |->
                    IF d[i].k = p.k THEN [d[i] EXCEPT !.v = Append(@, p.v)] ELSE d[i]]
            ELSE Append(d, [k |-> p.k, v |-> << p.v >>])
    IN  Eval(parse_qsl(qs), LAMBDA pairs :
            LET F[n \in 0..Len(pairs)] ==
                    IF n = 0 THEN << >>
                    ELSE Eval(F[n - 1], LAMBDA d : Add(d, pairs[n]))
            IN  F[Len(pairs)])

\* urllib.parse.urlunparse
urlunparse(scheme, netloc, path, params, query, fragment) ==
    Eval(IF params # << >> THEN path \o << ";" >> \o params ELSE path, LAMBDA u1 :
        LET with_netloc ==
                netloc # << >>
                \/ (scheme # << >> /\ scheme \in uses_netloc
                    /\ ~ (Len(u1) >= 2 /\ u1[1] = "/" /\ u1[2] = "/"))
        IN  (IF scheme # << >> THEN scheme \o << ":" >> ELSE << >>)
            \o (IF with_netloc
                THEN << "/", "/" >> \o netloc
                     \o (IF u1 # << >> /\ u1[1] # "/" THEN << "/" >> ELSE << >>)
                ELSE << >>)
            \o u1
            \o (IF query # << >> THEN << "?" >> \o query ELSE << >>)
            \o (IF fragment # << >> THEN << "#" >> \o fragment ELSE << >>))

(***************************************************************************)
(* dedup.py: canonicalize_url                                              *)
(***************************************************************************)

\* dedup.py:30-33
tracking_params ==
    { << "u", "t", "m", "_", "s", "o", "u", "r", "c", "e" >>,
      << "u", "t", "m", "_", "m", "e", "d", "i", "u", "m" >>,
      << "u", "t", "m", "_", "c", "a", "m", "p", "a", "i", "g", "n" >>,
      << "u", "t", "m", "_", "t", "e", "r", "m" >>,
      << "u", "t", "m", "_", "c", "o", "n", "t", "e", "n", "t" >>,
      << "r", "e", "f" >>,
      << "s", "o", "u", "r", "c", "e" >>,
      << "f", "b", "c", "l", "i", "d" >>,
      << "g", "c", "l", "i", "d" >>,
      << "m", "s", "c", "l", "k", "i", "d" >> }

\* sorted(clean_params.items()): the names are distinct, so the order is
\* the order of the names
\* mutant of sorted_items: the items left in the order parse_qs gave them
unsorted_items(d) == d

RECURSIVE sorted_items(_)
sorted_items(d) ==
    IF d = << >> THEN << >>
    ELSE Eval(CHOOSE i \in 1..Len(d) : \A j \in 1..Len(d) : ~ str_less(d[j].k, d[i].k),
              LAMBDA m :
                << d[m] >> \o sorted_items(SubSeq(d, 1, m - 1) \o SubSeq(d, m + 1, Len(d))))

\* the query string rebuilt: "k=v[0]" for each name in sorted order, joined
\* with "&"; the values are written decoded, as parse_qs returned them
clean_query_of(clean_params) ==
    Eval(sorted_items(clean_params), LAMBDA items :
        join([i \in 1..Len(items) |-> items[i].k \o << "=" >> \o items[i].v[1]], << "&" >>))

canonicalize_url(u) ==
    IF u = << >> THEN << >>
    ELSE Eval(urlparse(u), LAMBDA parsed :
            LET query_params == parse_qs(parsed.query)
                clean_params == SelectSeq(query_params, LAMBDA p : lower(p.k) \notin tracking_params)
                clean_query == clean_query_of(clean_params)
            IN  urlunparse(lower(parsed.scheme), lower(parsed.netloc), parsed.path,
                           parsed.params, clean_query, << >>))

(***************************************************************************)
(* The URLs canonicalize_url is checked on: http://h/p with up to          *)
(* MaxParams query parameters, and for each a second URL that differs      *)
(* from it in one respect.                                                 *)
(***************************************************************************)

MaxParams == 2

utm_source == << "u", "t", "m", "_", "s", "o", "u", "r", "c", "e" >>

utm_id == << "u", "t", "m", "_", "i", "d" >>

QueryKeys == { << "a" >>, << "b" >>, utm_source }

\* raw (still encoded) values: blank, plain, an encoded "&b=2", an encoded "x#"
QueryValues ==
    { << >>, << "1" >>, << "%", "2", "6", "b", "%", "3", "D", "2" >>, << "x", "%", "2", "3" >> }

QueryParams == [k : QueryKeys, v : QueryValues]

ParamLists == UNION { [1..n -> QueryParams] : n \in 0..MaxParams }

\* tracking keys "of the form utm_*, ref, ..." a variant may add
AddedKeys == { utm_source, utm_id, << "r", "e", "f" >> }

make_url(scheme, host, ps, frag) ==
    scheme \o << ":", "/", "/" >> \o host \o << "/", "p" >>
    \o (IF ps = << >> THEN << >>
        ELSE << "?" >> \o join([i \in 1..Len(ps) |-> ps[i].k \o << "=" >> \o ps[i].v], << "&" >>))
    \o (IF frag = << >> THEN << >> ELSE << "#" >> \o frag)

base_url(ps) == make_url(<< "h", "t", "t", "p" >>, << "h" >>, ps, << >>)

Reorderings(n) == { f \in [1..n -> 1..n] : \A i, j \in 1..n : f[i] = f[j] => i = j }

\* the second URLs of base_url(ps), each with the respect in which it differs
Variants(ps) ==
    { [how |-> "order", key |-> << >>, params |-> ps,
       url |-> base_url([i \in 1..Len(ps) |-> ps[f[i]]])] :
          f \in { g \in Reorderings(Len(ps)) : \E i \in 1..Len(ps) : g[i] # i } }
    \cup { [how |-> "fragment", key |-> << >>, params |-> ps,
            url |-> make_url(<< "h", "t", "t", "p" >>, << "h" >>, ps, << "f" >>)] }
    \cup { [how |-> "case", key |-> << >>, params |-> ps,
            url |-> make_url(<< "H", "T", "T", "P" >>, << "H" >>, ps, << >>)] }
    \cup { [how |-> "tracking", key |-> k, params |-> ps,
            url |-> base_url(SubSeq(ps, 1, i) \o << [k |-> k, v |-> << "x" >>] >>
                             \o SubSeq(ps, i + 1, Len(ps)))] :
          k \in AddedKeys, i \in 0..Len(ps) }

InitUrl ==
    /\ pc = "url_given"
    /\ \E ps \in ParamLists :
         /\ url = base_url(ps)
         /\ \E v \in Variants(ps) :
              /\ kind = [how |-> v.how, key |-> v.key, params |-> v.params]
              /\ variant = v.url
    /\ canon = << >> /\ canon_again = << >> /\ canon_variant = << >>
    /\ articles = << >>
    /\ seen_urls = << >> /\ seen_titles = << >> /\ unique_articles = << >>
    /\ min_quotas = << >> /\ max_quotas = << >> /\ target_count = 0 /\ selected = << >>
    /\ all_evaluated_articles = << >> /\ filtered_articles = << >> /\ drop_if = << >>
    /\ scorer = << >> /\ evaluator = << >> /\ FEED_METRICS = << >>
    /\ sampler = << >> /\ github = << >> /\ run = << >>

\* canonicalize_url applied to the URL and to its variant
Canonicalize ==
    /\ pc = "url_given"
    /\ canon' = canonicalize_url(url)
    /\ canon_variant' = canonicalize_url(variant)
    /\ pc' = "canonical"
    /\ UNCHANGED << url, variant, kind, canon_again, articles, dedupVars, quotaVars, driverVars >>
    /\ UNCHANGED componentVars

\* canonicalize_url applied to its own result
CanonicalizeAgain ==
    /\ pc = "canonical"
    /\ canon_again' = canonicalize_url(canon)
    /\ pc' = "canonical_again"
    /\ UNCHANGED << url, variant, kind, canon, canon_variant, articles, dedupVars, quotaVars, driverVars >>
    /\ UNCHANGED componentVars

NextUrl == Canonicalize \/ CanonicalizeAgain

SpecUrl == InitUrl /\ [][NextUrl]_vars

(***************************************************************************)
(* Claims about canonicalize_url (checked under SpecUrl)                   *)
(***************************************************************************)

\* C9: canonicalize_url is idempotent: canonicalizing a canonical URL
\* returns it unchanged, whatever the query string of the URL first given
\* (repeated keys, blank values, percent-encoded values).
C9_Idempotent == pc = "canonical_again" => canon_again = canon

\* C10 as stated: two URLs that differ only in the order of their query
\* parameters, in their fragment, in the letter case of scheme and host, or
\* in the presence of a tracking parameter (any utm_* key, ref, ...) have
\* the same canonical URL.
C10_SameCanonical == pc = "canonical" => canon_variant = canon

\* the tracking keys the amended C10 names
C10_TrackingKeys ==
    { << "u", "t", "m", "_", "s", "o", "u", "r", "c", "e" >>,
      << "u", "t", "m", "_", "m", "e", "d", "i", "u", "m" >>,
      << "u", "t", "m", "_", "c", "a", "m", "p", "a", "i", "g", "n" >>,
      << "u", "t", "m", "_", "t", "e", "r", "m" >>,
      << "u", "t", "m", "_", "c", "o", "n", "t", "e", "n", "t" >>,
      << "r", "e", "f" >>, << "s", "o", "u", "r", "c", "e" >>,
      << "f", "b", "c", "l", "i", "d" >>, << "g", "c", "l", "i", "d" >>,
      << "m", "s", "c", "l", "k", "i", "d" >> }

C10_DistinctNames ==
    \A i, j \in 1..Len(kind.params) : kind.params[i].k = kind.params[j].k => i = j

\* C10 amended: the canonical URL is the same for two URLs that differ only
\* in their fragment, in the letter case of scheme and host, in the presence
\* of a parameter whose key is one of utm_source, utm_medium, utm_campaign,
\* utm_term, utm_content, ref, source, fbclid, gclid, msclkid, or in the
\* order of their query parameters when no parameter name occurs twice.
C10_SameCanonicalAmended ==
    (/\ pc = "canonical"
     /\ \/ kind.how \in {"fragment", "case"}
        \/ kind.how = "tracking" /\ kind.key \in C10_TrackingKeys
        \/ kind.how = "order" /\ C10_DistinctNames)
    => canon_variant = canon

\* C10 witness: two retained parameters with different names given in the
\* other order, and both URLs canonicalized to the same two-parameter URL
C10_Witness ==
    /\ pc = "canonical"
    /\ kind.how = "order"
    /\ C10_DistinctNames
    /\ variant # url
    /\ canon_variant = canon
    /\ \E i \in 1..Len(canon) : canon[i] = "&"

(***************************************************************************)
(* diversity.py: enforce_diversity_quotas                                  *)
(*                                                                         *)
(* An article is a record; id stands for the identity of the Python        *)
(* object (Article defines no __eq__, so "in" and "==" compare             *)
(* identities).  min_quotas and max_quotas are sequences of                *)
(* [topic, count], in the order of the configuration's dict.               *)
(***************************************************************************)

Topics == {"Model", "Agent", "Other"}

Min(a, b) == IF a <= b THEN a ELSE b

\* "a in list" / "a not in list" on Article objects
in_list(a, list) == \E i \in 1..Len(list) : list[i].id = a.id

\* sorted(seq, key=score, reverse=True): stable, equal scores keep their order
RECURSIVE sorted_by_score(_)
sorted_by_score(seq) ==
    IF seq = << >> THEN << >>
    ELSE Eval(CHOOSE i \in 1..Len(seq) :
                  /\ \A j \in 1..Len(seq) : seq[j].evaluate.score <= seq[i].evaluate.score
                  /\ \A j \in 1..(i - 1) : seq[j].evaluate.score < seq[i].evaluate.score,
              LAMBDA m :
                << seq[m] >>
                \o sorted_by_score(SubSeq(seq, 1, m - 1) \o SubSeq(seq, m + 1, Len(seq))))

\* mutant of to_select_of: one short of the minimum
to_select_short(min_count, available) == Min(min_count, available) - 1

\* diversity.py:54
to_select_of(min_count, available) == Min(min_count, available)

\* diversity.py:47-58, one topic of min_quotas: the top to_select articles of
\* the topic are selected, whatever target_count and max_quotas say
phase1_topic(st, pool, quota) ==
    Eval(sorted_by_score(SelectSeq(pool, LAMBDA a : a.evaluate.topic = quota.topic)),
         LAMBDA available_sorted :
            Eval(to_select_of(quota.count, Len(available_sorted)), LAMBDA to_select :
                LET F[i \in 0..(IF to_select < 0 THEN 0 ELSE to_select)] ==
                        IF i = 0 THEN st
                        ELSE Eval(F[i - 1], LAMBDA s :
                                IF in_list(available_sorted[i], s.selected) THEN s
                                ELSE [s EXCEPT
                                        !.selected = Append(@, available_sorted[i]),
                                        !.topic_counts[quota.topic] = @ + 1])
                IN  F[IF to_select < 0 THEN 0 ELSE to_select]))

\* diversity.py:45-60
phase1(pool, mins) ==
    LET F[n \in 0..Len(mins)] ==
            IF n = 0 THEN [selected |-> << >>, topic_counts |-> [t \in Topics |-> 0]]
            ELSE Eval(F[n - 1], LAMBDA st : phase1_topic(st, pool, mins[n]))
    IN  F[Len(mins)]

\* mutant of max_reached: the maximum is never looked at
max_never_reached(maxs, topic_counts, topic) == FALSE

\* mutant of max_reached: the maximum counts as reached one article early
max_reached_early(maxs, topic_counts, topic) ==
    \E i \in 1..Len(maxs) : maxs[i].topic = topic /\ topic_counts[topic] + 1 >= maxs[i].count

\* diversity.py:76-77: max_quotas.get(topic, inf) reached by topic_counts[topic]
max_reached(maxs, topic_counts, topic) ==
    \E i \in 1..Len(maxs) : maxs[i].topic = topic /\ topic_counts[topic] >= maxs[i].count

\* diversity.py:62-83
phase2(pool, maxs, target, st1) ==
    Eval(SelectSeq(pool, LAMBDA a : ~ in_list(a, st1.selected)), LAMBDA unselected :
        LET F[n \in 0..Len(unselected)] ==
                IF n = 0
                THEN [selected |-> st1.selected, topic_counts |-> st1.topic_counts,
                      remaining_slots |-> target - Len(st1.selected)]
                ELSE Eval(F[n - 1], LAMBDA s :
                        IF s.remaining_slots <= 0 THEN s
                        ELSE IF max_reached(maxs, s.topic_counts, unselected[n].evaluate.topic)
                        THEN s
                        ELSE [selected |-> Append(s.selected, unselected[n]),
                              topic_counts |->
                                [s.topic_counts EXCEPT ![unselected[n].evaluate.topic] = @ + 1],
                              remaining_slots |-> s.remaining_slots - 1])
        IN  F[Len(unselected)])

\* diversity.py:11-93: the list returned
enforce_diversity_quotas(pool, mins, maxs, target) ==
    Eval(phase1(pool, mins), LAMBDA st1 : phase2(pool, maxs, target, st1).selected)

(***************************************************************************)
(* The pools and configurations enforce_diversity_quotas is checked on.    *)
(* A pool is sorted by score, highest first (mainflow.py:342), with        *)
(* pairwise different scores.                                              *)
(***************************************************************************)

MaxPool == 4

MaxQuota == 2

MaxTarget == 3

\* the pool whose i-th article, in score order, has topic ts[i]
pool_of(ts) ==
    [i \in 1..Len(ts) |->
        [id |-> i, evaluate |-> [topic |-> ts[i], score |-> Len(ts) + 1 - i]]]

Pools == { pool_of(ts) : ts \in UNION { [1..n -> Topics] : n \in 0..MaxPool } }

MinConfigs ==
    { << [topic |-> "Model", count |-> m], [topic |-> "Agent", count |-> a] >> :
        m \in 0..MaxQuota, a \in 0..1 }

MaxConfigs ==
    { << >> } \cup { << [topic |-> "Model", count |-> m] >> : m \in 1..MaxQuota }

InitQuota ==
    /\ pc = "pool_given"
    /\ articles \in Pools
    /\ min_quotas \in MinConfigs
    /\ max_quotas \in MaxConfigs
    /\ target_count \in 1..MaxTarget
    /\ selected = << >>
    /\ url = << >> /\ variant = << >> /\ kind = << >>
    /\ canon = << >> /\ canon_again = << >> /\ canon_variant = << >>
    /\ seen_urls = << >> /\ seen_titles = << >> /\ unique_articles = << >>
    /\ all_evaluated_articles = << >> /\ filtered_articles = << >> /\ drop_if = << >>
    /\ scorer = << >> /\ evaluator = << >> /\ FEED_METRICS = << >>
    /\ sampler = << >> /\ github = << >> /\ run = << >>

\* enforce_diversity_quotas(articles, config, target_count)
EnforceQuotas ==
    /\ pc = "pool_given"
    /\ selected' = enforce_diversity_quotas(articles, min_quotas, max_quotas, target_count)
    /\ pc' = "selected"
    /\ UNCHANGED << urlVars, articles, dedupVars, min_quotas, max_quotas, target_count,
                   driverVars >>
    /\ UNCHANGED componentVars

NextQuota == EnforceQuotas

SpecQuota == InitQuota /\ [][NextQuota]_vars

\* the number of articles of topic t in a list
count_topic(list, t) == Cardinality({ i \in 1..Len(list) : list[i].evaluate.topic = t })

\* C1: the list returned has at most target_count articles, for any
\* score-sorted pool, any min/max quota configuration and any target_count.
C1_AtMostTarget == pc = "selected" => Len(selected) <= target_count

\* C2: for every topic T with a declared minimum, if the pool holds at least
\* min[T] articles of topic T then so does the slate returned.
C2_MinimumMet ==
    pc = "selected" =>
        \A i \in 1..Len(min_quotas) :
            count_topic(articles, min_quotas[i].topic) >= min_quotas[i].count
            => count_topic(selected, min_quotas[i].topic) >= min_quotas[i].count

\* C2 witness: a minimum of 2 that the pool can meet and the target alone
\* would not have met (the two Model articles are the lowest scored of four,
\* the target is 2) is met
C2_Witness ==
    /\ pc = "selected"
    /\ min_quotas[1].count = 2
    /\ Len(articles) = 4
    /\ articles[3].evaluate.topic = "Model" /\ articles[4].evaluate.topic = "Model"
    /\ articles[1].evaluate.topic = "Other" /\ articles[2].evaluate.topic = "Other"
    /\ target_count = 2
    /\ count_topic(selected, "Model") = 2

\* C3: for every topic T with a declared maximum, the slate returned never
\* holds more than max[T] articles of topic T, whatever minimum is declared
\* for T and whatever the pool is.
C3_MaximumKept ==
    pc = "selected" =>
        \A i \in 1..Len(max_quotas) :
            count_topic(selected, max_quotas[i].topic) <= max_quotas[i].count

(***************************************************************************)
(* Scenario S4: min = {Model:3, Agent:2}, max = {Model:5}, daily_target =  *)
(* 12, a pool of 10 Model, 4 Agent and 6 Other articles with pairwise      *)
(* different scores.  The score orders checked are those in which the      *)
(* articles of each topic form at most two runs: the six runs in any       *)
(* order, the first run of a topic of any length.                          *)
(***************************************************************************)

S4Size == [Model |-> 10, Agent |-> 4, Other |-> 6]

S4Min == << [topic |-> "Model", count |-> 3], [topic |-> "Agent", count |-> 2] >>

S4Max == << [topic |-> "Model", count |-> 5] >>

\* the orders of six runs, two of each topic
S4RunOrders ==
    { p \in [1..6 -> Topics] : \A t \in Topics : Cardinality({ i \in 1..6 : p[i] = t }) = 2 }

\* the topics of the pool in score order: run i of order p has the topic p[i]
\* and, for the first run of that topic, first[p[i]] articles, for the second the rest
S4TopicsOf(p, first) ==
    LET RunLen(i) ==
            IF \E j \in 1..(i - 1) : p[j] = p[i] THEN S4Size[p[i]] - first[p[i]]
            ELSE first[p[i]]
        F[i \in 0..6] ==
            IF i = 0 THEN << >> ELSE F[i - 1] \o [k \in 1..RunLen(i) |-> p[i]]
    IN  F[6]

S4Pools ==
    { pool_of(S4TopicsOf(p, [Model |-> m, Agent |-> a, Other |-> o])) :
        p \in S4RunOrders, m \in 0..10, a \in 0..4, o \in 0..6 }

InitS4 ==
    /\ pc = "pool_given"
    /\ articles \in S4Pools
    /\ min_quotas = S4Min
    /\ max_quotas = S4Max
    /\ target_count = 12
    /\ selected = << >>
    /\ url = << >> /\ variant = << >> /\ kind = << >>
    /\ canon = << >> /\ canon_again = << >> /\ canon_variant = << >>
    /\ seen_urls = << >> /\ seen_titles = << >> /\ unique_articles = << >>
    /\ all_evaluated_articles = << >> /\ filtered_articles = << >> /\ drop_if = << >>
    /\ scorer = << >> /\ evaluator = << >> /\ FEED_METRICS = << >>
    /\ sampler = << >> /\ github = << >> /\ run = << >>

SpecS4 == InitS4 /\ [][NextQuota]_vars

\* C4 as stated: in scenario S4 the slate has 12 articles, exactly 5 of them
\* Model, at least 2 Agent, the rest Other, for every assignment of scores.
C4_ExactlyFiveModel ==
    pc = "selected" =>
        /\ Len(selected) = 12
        /\ count_topic(selected, "Model") = 5
        /\ count_topic(selected, "Agent") >= 2
        /\ count_topic(selected, "Other") =
              12 - count_topic(selected, "Model") - count_topic(selected, "Agent")

\* C4 amended: in scenario S4 the slate has 12 articles, at least 3 and at
\* most 5 of them Model, at least 2 Agent, the rest Other.
C4_ThreeToFiveModel ==
    pc = "selected" =>
        /\ Len(selected) = 12
        /\ count_topic(selected, "Model") >= 3
        /\ count_topic(selected, "Model") <= 5
        /\ count_topic(selected, "Agent") >= 2
        /\ count_topic(selected, "Other") =
              12 - count_topic(selected, "Model") - count_topic(selected, "Agent")

\* C4 witness: the S4 pool with the Model articles scored highest; the slate
\* stops at 5 Model although 10 outscore every other article
C4_Witness ==
    /\ pc = "selected"
    /\ \A i \in 1..10 : articles[i].evaluate.topic = "Model"
    /\ Len(selected) = 12
    /\ count_topic(selected, "Model") = 5
    /\ count_topic(selected, "Agent") >= 2

(***************************************************************************)
(* dedup.py: normalize_title, title_similarity, get_tier_priority,         *)
(* choose_better_article, deduplicate_articles                             *)
(***************************************************************************)

\* dedup.py:80: the ASCII characters of the punctuation list (its dashes
\* beyond ASCII do not occur in the titles of the model)
TitlePunctuation ==
    {".", ",", "!", "?", ";", ":", "(", ")", "[", "]", "{", "}", Chr(34), "-"}

\* ' '.join(title.split()): runs of blanks become one, none at the ends
RECURSIVE collapse_blanks(_, _)
collapse_blanks(s, pending) ==
    IF s = << >> THEN << >>
    ELSE IF s[1] = " " THEN collapse_blanks(Tail(s), pending)
    ELSE (IF pending THEN << " " >> ELSE << >>) \o << s[1] >>
         \o (IF Len(s) >= 2 /\ s[2] = " "
             THEN collapse_blanks(Tail(s), TRUE)
             ELSE collapse_blanks(Tail(s), FALSE))

\* dedup.py:66-86
normalize_title(title) ==
    IF title = << >> THEN << >>
    ELSE Eval(lower(title), LAMBDA low :
            collapse_blanks([i \in 1..Len(low) |->
                                IF low[i] \in TitlePunctuation THEN " " ELSE low[i]], FALSE))

\* difflib.SequenceMatcher(None, a, b): the total size of the matching blocks.
\* The longest common block is taken, the earliest in a and then the earliest
\* in b among the longest; then the same to its left and to its right.  (No
\* junk: the titles are shorter than the 200 characters at which autojunk
\* starts.)
RECURSIVE matching_size(_, _)
matching_size(a, b) ==
    IF a = << >> \/ b = << >> THEN 0
    ELSE LET Block(i, j, k) == \A d \in 0..(k - 1) : a[i + d] = b[j + d]
             Blocks(k) == { ij \in (1..(Len(a) - k + 1)) \X (1..(Len(b) - k + 1)) :
                              Block(ij[1], ij[2], k) }
         IN  Eval(CHOOSE k \in 0..Min(Len(a), Len(b)) :
                      /\ k > 0 => Blocks(k) # {}
                      /\ \A m \in (k + 1)..Min(Len(a), Len(b)) : Blocks(m) = {},
                  LAMBDA k :
                    IF k = 0 THEN 0
                    ELSE Eval(CHOOSE ij \in Blocks(k) :
                                  \A xy \in Blocks(k) :
                                      ij[1] < xy[1] \/ (ij[1] = xy[1] /\ ij[2] <= xy[2]),
                              LAMBDA ij :
                                k + matching_size(SubSeq(a, 1, ij[1] - 1), SubSeq(b, 1, ij[2] - 1))
                                  + matching_size(SubSeq(a, ij[1] + k, Len(a)),
                                                  SubSeq(b, ij[2] + k, Len(b)))))

\* dedup.py:89-106: the similarity as the fraction num/den (1.0 is 1/1,
\* 0.0 is 0/1, SequenceMatcher.ratio() is 2*M/(len(a)+len(b)))
title_similarity(title1, title2) ==
    IF title1 = << >> \/ title2 = << >> THEN [num |-> 0, den |-> 1]
    ELSE Eval(normalize_title(title1), LAMBDA norm1 :
         Eval(normalize_title(title2), LAMBDA norm2 :
            IF norm1 = norm2 THEN [num |-> 1, den |-> 1]
            ELSE [num |-> 2 * matching_size(norm1, norm2), den |-> Len(norm1) + Len(norm2)]))

\* dedup.py:206,282: similarity >= title_similarity_threshold, 0.85 = 85/100
at_least_threshold(sim) == sim.num * 100 >= 85 * sim.den

\* dedup.py:109-123
get_tier_priority(tier) ==
    CASE tier = "P0_CURATED" -> 5
      [] tier = "P0_RELEASES" -> 4
      [] tier = "P1_CONTEXT" -> 3
      [] tier = "P2_RAW" -> 2
      [] tier = "COMMUNITY" -> 1
      [] OTHER -> 0

\* mutant of choose_better_article: the first occurrence is always kept
choose_first_article(article1, article2) == article1

\* dedup.py:126-179
choose_better_article(article1, article2) ==
    LET tier1_priority == get_tier_priority(article1.tier)
        tier2_priority == get_tier_priority(article2.tier)
    IN  IF tier1_priority > tier2_priority THEN article1
        ELSE IF tier2_priority > tier1_priority THEN article2
        ELSE IF article1.origin_type = "curated" /\ article2.origin_type # "curated" THEN article1
        ELSE IF article2.origin_type = "curated" /\ article1.origin_type # "curated" THEN article2
        ELSE IF article1.ainews_confidence > article2.ainews_confidence THEN article1
        ELSE IF article2.ainews_confidence > article1.ainews_confidence THEN article2
        ELSE IF article1.score > article2.score THEN article1
        ELSE IF article2.score > article1.score THEN article2
        ELSE article1

\* a dict as the sequence of its [k, a] items in insertion order
dict_has(d, key) == \E i \in 1..Len(d) : d[i].k = key

dict_get(d, key) == d[CHOOSE i \in 1..Len(d) : d[i].k = key].a

\* d[key] = a: an existing key keeps its place
dict_set(d, key, a) ==
    IF dict_has(d, key)
    THEN [i \in 1..Len(d) |-> IF d[i].k = key THEN [k |-> key, a |-> a] ELSE d[i]]
    ELSE Append(d, [k |-> key, a |-> a])

\* del d[key] (the key is there)
dict_del(d, key) == SelectSeq(d, LAMBDA e : e.k # key)

\* dedup.py:253-256, 295-298: the first entry that is the object `existing`
\* is replaced; nothing happens when the object is not in the list
replace_in_list(list, existing, article) ==
    IF in_list(existing, list)
    THEN Eval(CHOOSE i \in 1..Len(list) :
                  list[i].id = existing.id /\ \A j \in 1..(i - 1) : list[j].id # existing.id,
              LAMBDA i : [list EXCEPT ![i] = article])
    ELSE list

\* dedup.py:236-239
title_of(article) == IF article.title # << >> THEN article.title ELSE article.evaluate.title

\* dedup.py:244-270: the canonical URL has been seen
url_duplicate(st, article, canonical) ==
    Eval(dict_get(st.seen_urls, canonical), LAMBDA existing_article :
        IF choose_better_article(existing_article, article).id = article.id
        THEN [st EXCEPT
                !.seen_urls = dict_set(@, canonical, article),
                !.unique_articles = replace_in_list(@, existing_article, article)]
        ELSE st)

\* dedup.py:284-312: the title is similar to that of seen_titles[n]
title_duplicate(st, article, canonical, normalized_title, n) ==
    Eval(st.seen_titles[n], LAMBDA e :
        IF choose_better_article(e.a, article).id = article.id
        THEN Eval(canonicalize_url(e.a.link), LAMBDA existing_canonical :
                IF ~ dict_has(st.seen_urls, existing_canonical)
                THEN [st EXCEPT !.raised = TRUE]
                ELSE [st EXCEPT
                        !.seen_titles = dict_set(dict_del(@, e.k), normalized_title, article),
                        !.seen_urls = dict_set(dict_del(@, existing_canonical), canonical, article),
                        !.unique_articles = replace_in_list(@, e.a, article)])
        ELSE st)

\* dedup.py:272-322: the canonical URL is new
new_url(st, article, canonical) ==
    Eval(title_of(article), LAMBDA title :
        IF article.origin_type = "curated" /\ title # << >>
        THEN Eval(normalize_title(title), LAMBDA normalized_title :
             Eval({ n \in 1..Len(st.seen_titles) :
                        at_least_threshold(title_similarity(title, st.seen_titles[n].a.title)) },
                  LAMBDA similar :
                    IF similar # {}
                    THEN title_duplicate(st, article, canonical, normalized_title,
                                         CHOOSE n \in similar : \A m \in similar : n <= m)
                    ELSE [st EXCEPT
                            !.seen_titles = dict_set(@, normalized_title, article),
                            !.seen_urls = dict_set(@, canonical, article),
                            !.unique_articles = Append(@, article)]))
        ELSE [st EXCEPT
                !.seen_urls = dict_set(@, canonical, article),
                !.unique_articles = Append(@, article)])

\* dedup.py:224-322: one turn of the loop
dedup_step(st, article) ==
    IF st.raised \/ article.link = << >> THEN st
    ELSE Eval(canonicalize_url(article.link), LAMBDA canonical :
            IF dict_has(st.seen_urls, canonical)
            THEN url_duplicate(st, article, canonical)
            ELSE new_url(st, article, canonical))

\* dedup.py:182-329 with deduplication enabled: the maps and the list at the
\* end of the loop; raised is set when a del finds no key (KeyError)
deduplicate_articles(list) ==
    LET F[n \in 0..Len(list)] ==
            IF n = 0
            THEN [seen_urls |-> << >>, seen_titles |-> << >>, unique_articles |-> << >>,
                  raised |-> FALSE]
            ELSE Eval(F[n - 1], LAMBDA st : dedup_step(st, list[n]))
    IN  F[Len(list)]

(***************************************************************************)
(* The lists deduplicate_articles is checked on: up to MaxArticles         *)
(* articles, each with the attributes of one entry of ArticleKinds (two    *)
(* articles of one kind are two objects with the same attributes).         *)
(***************************************************************************)

MaxArticles == 4

\* http://h/p?a=1
LinkP == << "h", "t", "t", "p", ":", "/", "/", "h", "/", "p", "?", "a", "=", "1" >>

\* HTTP://H/p?utm_source=x&a=1#f, the same page as LinkP
LinkPTracked ==
    << "H", "T", "T", "P", ":", "/", "/", "H", "/", "p", "?" >> \o utm_source
    \o << "=", "x", "&", "a", "=", "1", "#", "f" >>

LinkQ == << "h", "t", "t", "p", ":", "/", "/", "h", "/", "q" >>

LinkR == << "h", "t", "t", "p", ":", "/", "/", "h", "/", "r" >>

LinkS == << "h", "t", "t", "p", ":", "/", "/", "h", "/", "s" >>

NoEvaluation == [title |-> << >>, topic |-> "Other", score |-> 0]

kind_of(link, title, origin_type, tier, confidence, score) ==
    [link |-> link, title |-> title, origin_type |-> origin_type, tier |-> tier,
     ainews_confidence |-> confidence, score |-> score, evaluate |-> NoEvaluation]

ArticleKinds ==
    { kind_of(LinkP, << "a", "b", "c" >>, "curated", "P1_CONTEXT", 0, 0),
      kind_of(LinkPTracked, << "x", "y", "z" >>, "raw", "P0_RELEASES", 0, 0),
      kind_of(LinkQ, << "a", "b", "c", "d" >>, "curated", "P0_CURATED", 0, 0),
      kind_of(LinkP, << "x", "y", "z" >>, "raw", "P2_RAW", 0, 3),
      kind_of(LinkPTracked, << "k", "l", "m" >>, "curated", "P0_CURATED", 0, 1),
      kind_of(LinkR, << "a", "b", "c", "d", "e" >>, "curated", "P1_CONTEXT", 0, 0),
      kind_of(LinkS, << "A", "b", "c", "." >>, "curated", "P1_CONTEXT", 1, 0),
      kind_of(LinkP, << "x", "y", "z" >>, "raw", "P2_RAW", 0, 0),
      kind_of(<< >>, << "a", "b", "c" >>, "curated", "P1_CONTEXT", 0, 0) }

\* the article object number i of a list, of kind k
article_of(i, k) ==
    [id |-> i, link |-> k.link, title |-> k.title, origin_type |-> k.origin_type,
     tier |-> k.tier, ainews_confidence |-> k.ainews_confidence, score |-> k.score,
     evaluate |-> k.evaluate]

InitDedup ==
    /\ pc = "list_given"
    /\ \E n \in 0..MaxArticles : \E ks \in [1..n -> ArticleKinds] :
          articles = [i \in 1..n |-> article_of(i, ks[i])]
    /\ seen_urls = << >> /\ seen_titles = << >> /\ unique_articles = << >>
    /\ url = << >> /\ variant = << >> /\ kind = << >>
    /\ canon = << >> /\ canon_again = << >> /\ canon_variant = << >>
    /\ min_quotas = << >> /\ max_quotas = << >> /\ target_count = 0 /\ selected = << >>
    /\ all_evaluated_articles = << >> /\ filtered_articles = << >> /\ drop_if = << >>
    /\ scorer = << >> /\ evaluator = << >> /\ FEED_METRICS = << >>
    /\ sampler = << >> /\ github = << >> /\ run = << >>

\* deduplicate_articles(articles, config), deduplication enabled
Deduplicate ==
    /\ pc = "list_given"
    /\ \E r \in { deduplicate_articles(articles) } :
          /\ seen_urls' = r.seen_urls
          /\ seen_titles' = r.seen_titles
          /\ unique_articles' = r.unique_articles
          /\ pc' = IF r.raised THEN "raised" ELSE "deduplicated"
    /\ UNCHANGED << urlVars, articles, quotaVars, driverVars >>
    /\ UNCHANGED componentVars

NextDedup == Deduplicate

SpecDedup == InitDedup /\ [][NextDedup]_vars

same_page(a, b) ==
    /\ a.link # << >> /\ b.link # << >>
    /\ canonicalize_url(a.link) = canonicalize_url(b.link)

similar_titles(a, b) ==
    /\ a.origin_type = "curated" /\ b.origin_type = "curated"
    /\ at_least_threshold(title_similarity(a.title, b.title))

\* C5: the output never holds two articles with equal canonical URLs, for
\* any input list.
C5_NoUrlTwice ==
    pc = "deduplicated" =>
        \A i, j \in 1..Len(unique_articles) :
            i # j => ~ same_page(unique_articles[i], unique_articles[j])

\* a and b collide: same canonical URL, or both curated with similar titles
collides(a, b) == same_page(a, b) \/ similar_titles(a, b)

\* the tie-break order of the specification: b comes strictly before a by
\* tier priority, then curated over raw, then confidence, then focus score
ranks_higher(b, a) ==
    LET rank(x) == << get_tier_priority(x.tier),
                      IF x.origin_type = "curated" THEN 1 ELSE 0,
                      x.ainews_confidence, x.score >>
    IN  \E n \in 1..4 :
            /\ rank(b)[n] > rank(a)[n]
            /\ \A m \in 1..(n - 1) : rank(b)[m] = rank(a)[m]

C7_NoSimilarTitles ==
    pc = "deduplicated" =>
        /\ \A i, j \in 1..Len(unique_articles) :
              i # j => ~ similar_titles(unique_articles[i], unique_articles[j])
        /\ \A i \in 1..Len(articles) :
              (/\ articles[i].origin_type = "raw" /\ articles[i].link # << >>
               /\ \A k \in 1..Len(articles) : k # i => ~ same_page(articles[k], articles[i]))
              => in_list(articles[i], unique_articles)

(***************************************************************************)
(* scorer.py: should_drop_article                                          *)
(*                                                                         *)
(* A dict is a function from its keys; d.get(k, default) is get.           *)
(***************************************************************************)

get(d, k, default) == IF k \in DOMAIN d THEN d[k] ELSE default

RECURSIVE lstrip(_)
lstrip(s) == IF s # << >> /\ s[1] = " " THEN lstrip(Tail(s)) ELSE s

RECURSIVE rstrip(_)
rstrip(s) ==
    IF s # << >> /\ s[Len(s)] = " " THEN rstrip(SubSeq(s, 1, Len(s) - 1)) ELSE s

\* str.strip()
strip(s) == rstrip(lstrip(s))

insight_fields ==
    << "why_it_matters", "key_evidence", "who_should_care", "next_action", "comparison" >>

\* mutant of fails_content_quality: the content is never looked at
never_fails_quality(evaluate, drop_config) == FALSE

\* scorer.py:173-201: TRUE when a drop reason is returned
fails_content_quality(evaluate, drop_config) ==
    LET quality_cfg == get(drop_config, "content_quality", << >>)
        filled ==
            Cardinality({ f \in 1..Len(insight_fields) :
                Len(strip(get(evaluate, insight_fields[f], << >>)))
                    >= get(quality_cfg, "insight_min_chars_each", 15) })
    IN  IF DOMAIN quality_cfg = {} THEN FALSE
        ELSE IF Len(get(evaluate, "summary", << >>)) < get(quality_cfg, "summary_min_chars", 200)
        THEN TRUE
        ELSE filled < get(quality_cfg, "insight_min_filled", 2)

\* scorer.py:132-170
should_drop_article(evaluate, drop_config) ==
    IF get(evaluate, "topic", "") \in get(drop_config, "topic_in", {}) THEN TRUE
    ELSE IF get(evaluate, "impact", 0) <= get(drop_config, "impact_lte", 0) THEN TRUE
    ELSE IF get(evaluate, "proof", 0) <= get(drop_config, "proof_lte", 0) THEN TRUE
    ELSE fails_content_quality(evaluate, drop_config)

(***************************************************************************)
(* mainflow.py: find_favorite_article, from the evaluated candidates to    *)
(* the slate: the drop_if filter, deduplication, the global sort and the   *)
(* diversity quotas, one step of the function per action.                  *)
(***************************************************************************)

MaxEvaluated == 3

evaluated_of(link, title, origin_type, tier, topic, impact, proof, score, summary, insight) ==
    [link |-> link, title |-> title, origin_type |-> origin_type, tier |-> tier,
     ainews_confidence |-> 0, score |-> 0,
     evaluate |-> [title |-> title, topic |-> topic, impact |-> impact, proof |-> proof,
                   score |-> score, summary |-> summary, why_it_matters |-> insight]]

EvaluatedKinds ==
    { evaluated_of(LinkP, << "a", "b", "c" >>, "curated", "P1_CONTEXT",
                   "Model", 3, 3, 2, << "g", "o", "o", "d" >>, << " ", "s", "o", " " >>),
      evaluated_of(LinkPTracked, << "x", "y", "z" >>, "curated", "P1_CONTEXT",
                   "Agent", 3, 3, 4, << "g", "o", "o", "d" >>, << "s", "o" >>),
      evaluated_of(LinkQ, << "a", "b", "c", "d" >>, "curated", "P1_CONTEXT",
                   "Model", 2, 2, 5, << "g", "o", "o", "d" >>, << "s", "o" >>),
      evaluated_of(LinkR, << "k", "l", "m" >>, "raw", "P2_RAW",
                   "Other", 3, 3, 3, << "g", "o", "o", "d" >>, << "s", "o" >>),
      evaluated_of(LinkS, << "u", "v", "w" >>, "raw", "P0_RELEASES",
                   "Agent", 1, 0, 1, << "o", "k" >>, << "s", "o" >>),
      evaluated_of(LinkR, << "k", "l", "m" >>, "raw", "P2_RAW",
                   "Model", 2, 2, 5, << "g", "o", "o", "d" >>, << " ", "s", " " >>) }

\* every rule configured, with small thresholds
AllRules ==
    [topic_in |-> {"Other"}, impact_lte |-> 1, proof_lte |-> 1,
     content_quality |->
        [summary_min_chars |-> 3, insight_min_filled |-> 1, insight_min_chars_each |-> 2]]

\* only a content_quality rule, its thresholds left to their defaults
DefaultQuality == [content_quality |-> [insight_min_filled |-> 0]]

InitDriver ==
    /\ pc = "evaluated"
    /\ \E n \in 0..MaxEvaluated : \E ks \in [1..n -> EvaluatedKinds] :
          all_evaluated_articles = [i \in 1..n |-> article_of(i, ks[i])]
    /\ drop_if = << >> \/ drop_if = AllRules \/ drop_if = DefaultQuality
    /\ min_quotas = << [topic |-> "Model", count |-> 1] >>
    /\ max_quotas = << [topic |-> "Agent", count |-> 1] >>
    /\ target_count \in 1..2
    /\ filtered_articles = << >> /\ articles = << >> /\ selected = << >>
    /\ seen_urls = << >> /\ seen_titles = << >> /\ unique_articles = << >>
    /\ url = << >> /\ variant = << >> /\ kind = << >>
    /\ canon = << >> /\ canon_again = << >> /\ canon_variant = << >>
    /\ scorer = << >> /\ evaluator = << >> /\ FEED_METRICS = << >>
    /\ sampler = << >> /\ github = << >> /\ run = << >>

\* mainflow.py:331-335
FilterDropped ==
    /\ pc = "evaluated"
    /\ filtered_articles' =
          SelectSeq(all_evaluated_articles,
                    LAMBDA article : ~ should_drop_article(article.evaluate, drop_if))
    /\ pc' = "filtered"
    /\ UNCHANGED << urlVars, articles, dedupVars, quotaVars, all_evaluated_articles, drop_if >>
    /\ UNCHANGED componentVars

\* mainflow.py:339
DeduplicateFiltered ==
    /\ pc = "filtered"
    /\ \E r \in { deduplicate_articles(filtered_articles) } :
          /\ seen_urls' = r.seen_urls
          /\ seen_titles' = r.seen_titles
          /\ unique_articles' = r.unique_articles
          /\ pc' = IF r.raised THEN "raised" ELSE "unique"
    /\ UNCHANGED << urlVars, articles, quotaVars, driverVars >>
    /\ UNCHANGED componentVars

\* mainflow.py:342
SortByScore ==
    /\ pc = "unique"
    /\ unique_articles' = sorted_by_score(unique_articles)
    /\ pc' = "sorted"
    /\ UNCHANGED << urlVars, articles, seen_urls, seen_titles, quotaVars, driverVars >>
    /\ UNCHANGED componentVars

\* mainflow.py:345
SelectSlate ==
    /\ pc = "sorted"
    /\ selected' = enforce_diversity_quotas(unique_articles, min_quotas, max_quotas, target_count)
    /\ pc' = "slate"
    /\ UNCHANGED << urlVars, articles, dedupVars, min_quotas, max_quotas, target_count,
                    driverVars >>
    /\ UNCHANGED componentVars

NextDriver == FilterDropped \/ DeduplicateFiltered \/ SortByScore \/ SelectSlate

SpecDriver == InitDriver /\ [][NextDriver]_vars

\* neither of a, b is preferred by the tie-break order: the first occurrence
\* is kept, whichever comes first
fully_tied(a, b) == ~ ranks_higher(a, b) /\ ~ ranks_higher(b, a)

\* C8: in the driver the list handed to deduplicate_articles is in descending
\* evaluate.score order, and of two colliding articles of that list that
\* are fully tied, with which no third one collides, the higher-scored one
\* is the one left after deduplication.
C8_SortedBeforeDedup ==
    pc = "unique" =>
        /\ \A i, j \in 1..Len(filtered_articles) :
              i < j => filtered_articles[i].evaluate.score >= filtered_articles[j].evaluate.score
        /\ \A i, j \in 1..Len(filtered_articles) :
              (/\ i # j
               /\ collides(filtered_articles[i], filtered_articles[j])
               /\ fully_tied(filtered_articles[i], filtered_articles[j])
               /\ filtered_articles[i].evaluate.score > filtered_articles[j].evaluate.score
               /\ \A k \in 1..Len(filtered_articles) :
                      k \in {i, j} \/ ~ (collides(filtered_articles[k], filtered_articles[i])
                                         \/ collides(filtered_articles[k], filtered_articles[j])))
              => /\ in_list(filtered_articles[i], unique_articles)
                 /\ ~ in_list(filtered_articles[j], unique_articles)

(***************************************************************************)
(* scorer.py: calculate_recency_score, apply_penalties, calculate_score    *)
(*                                                                         *)
(* Scores are real numbers, kept exactly: a score x is the integer         *)
(* x * ScoreUnit, a recency r the integer r * RecencyUnit.  An article's   *)
(* age (now - article_date) is a whole number of half lives, at most       *)
(* MaxHalfLives, so that 0.5 ^ (hours_old / half_life_hours) is a          *)
(* multiple of 1 / RecencyUnit.                                            *)
(***************************************************************************)

MaxHalfLives == 6

RecencyUnit == 2 ^ MaxHalfLives

ScoreUnit == 100 * RecencyUnit

Max(a, b) == IF a >= b THEN a ELSE b

\* math.pow(0.5, k), in recency units, k a whole number of half lives
pow_half(k) == IF k >= 0 THEN 2 ^ (MaxHalfLives - k) ELSE RecencyUnit * 2 ^ (0 - k)

\* mutant of calculate_recency_score: no decay
calculate_recency_flat(hours_old, half_life_hours) ==
    IF hours_old > 24 THEN 4 * RecencyUnit ELSE 5 * RecencyUnit

\* scorer.py:12-40, hours_old being (now - article_date) in hours
calculate_recency_score(hours_old, half_life_hours) ==
    LET recency == 5 * pow_half(hours_old \div half_life_hours)
        penalized == IF hours_old > 24 THEN recency - RecencyUnit \div 2 ELSE recency
    IN  Max(0, Min(5 * RecencyUnit, penalized))

\* "keyword in combined_text"
contains(text, keyword) ==
    \E i \in 0..(Len(text) - Len(keyword)) :
        \A j \in 1..Len(keyword) : text[i + j] = keyword[j]

\* scorer.py:43-74
apply_penalties(base_score, article_title, article_summary, penalties) ==
    LET combined_text == lower(article_title \o << " " >> \o article_summary)
        applies(penalty_rule) ==
            LET keywords == get(penalty_rule, "if_title_or_content_contains_any", << >>)
            IN  \E n \in 1..Len(keywords) : contains(combined_text, lower(keywords[n]))
        F[n \in 0..Len(penalties)] ==
            IF n = 0 THEN base_score
            ELSE IF applies(penalties[n]) THEN F[n - 1] - get(penalties[n], "subtract", 0)
            ELSE F[n - 1]
    IN  Max(0, F[Len(penalties)])

\* scorer.py:96-115: the weighted sum, before the penalties
base_score_of(evaluate, hours_old, scoring_config) ==
    LET impact == get(evaluate, "impact", 0)
        novelty == get(evaluate, "novelty", 0)
        proof == get(evaluate, "proof", 0)
        recency_config == get(scoring_config, "recency", << >>)
        half_life_hours == get(recency_config, "half_life_hours", 36)
        recency == calculate_recency_score(hours_old, half_life_hours)
    IN  35 * impact * RecencyUnit + 25 * novelty * RecencyUnit
        + 25 * proof * RecencyUnit + 15 * recency

\* scorer.py:77-129
calculate_score(evaluate, hours_old, scoring_config) ==
    apply_penalties(base_score_of(evaluate, hours_old, scoring_config),
                    get(evaluate, "title", << >>), get(evaluate, "summary", << >>),
                    get(scoring_config, "penalties", << >>))

(***************************************************************************)
(* The evaluations, dates and scoring configurations calculate_score is    *)
(* checked on: two articles with one evaluation and the ages hours_old[1]  *)
(* and hours_old[2].                                                       *)
(***************************************************************************)

HalfLives == {6, 12, 36}

\* the penalty rules: a rule that matches the title, one whose subtraction
\* exceeds every score, one that matches nothing
OnePenalty ==
    << [if_title_or_content_contains_any |-> << << "z", "z" >>, << "A", "D" >> >>,
        subtract |-> ScoreUnit] >>

TwoPenalties ==
    << [if_title_or_content_contains_any |-> << << "z", "z" >> >>, subtract |-> ScoreUnit],
       [if_title_or_content_contains_any |-> << << "o", "k" >> >>, subtract |-> 7 * ScoreUnit] >>

ScoredEvaluations ==
    { [title |-> << "a", "d", " ", "x" >>, summary |-> << "o", "k" >>,
       impact |-> i, novelty |-> n, proof |-> p] :
        i \in {0, 5, 6}, n \in {0, 5}, p \in {0, 5} }

InitScore ==
    /\ pc = "to_score"
    /\ \E ev \in ScoredEvaluations, hl \in HalfLives, k1, k2 \in (0 - 1)..MaxHalfLives,
          pens \in {0, 1, 2} :
          scorer = [evaluate |-> ev,
                    hours_old |-> << k1 * hl, k2 * hl >>,
                    scoring_config |->
                        IF pens = 0 THEN [recency |-> [half_life_hours |-> hl]]
                        ELSE [recency |-> [half_life_hours |-> hl],
                              penalties |-> IF pens = 1 THEN OnePenalty ELSE TwoPenalties],
                    base |-> << >>, final |-> << >>]
    /\ evaluator = << >> /\ FEED_METRICS = << >> /\ sampler = << >> /\ github = << >> /\ run = << >>
    /\ url = << >> /\ variant = << >> /\ kind = << >>
    /\ canon = << >> /\ canon_again = << >> /\ canon_variant = << >>
    /\ articles = << >>
    /\ seen_urls = << >> /\ seen_titles = << >> /\ unique_articles = << >>
    /\ min_quotas = << >> /\ max_quotas = << >> /\ target_count = 0 /\ selected = << >>
    /\ all_evaluated_articles = << >> /\ filtered_articles = << >> /\ drop_if = << >>

\* calculate_score(evaluate, article_dt, config) for each of the two dates
CalculateScore ==
    /\ pc = "to_score"
    /\ scorer' =
          [scorer EXCEPT
              !.base = [a \in 1..2 |->
                          base_score_of(scorer.evaluate, scorer.hours_old[a],
                                        scorer.scoring_config)],
              !.final = [a \in 1..2 |->
                          calculate_score(scorer.evaluate, scorer.hours_old[a],
                                          scorer.scoring_config)]]
    /\ pc' = "scored"
    /\ UNCHANGED << urlVars, articles, dedupVars, quotaVars, driverVars,
                    evaluator, FEED_METRICS, sampler, github, run >>

NextScore == CalculateScore

SpecScore == InitScore /\ [][NextScore]_vars

\* C11: the score calculate_score returns is between 0 and 5, for any
\* impact, novelty and proof values of the evaluation, any age of the
\* article and any configured penalty rules.
C11_ScoreInRange ==
    pc = "scored" =>
        \A a \in 1..2 : scorer.final[a] >= 0 /\ scorer.final[a] <= 5 * ScoreUnit

\* C12: of two articles with equal impact, novelty and proof and the same
\* half life, the one with the later date has the strictly higher
\* pre-penalty score, for every pair of ages.
C12_LaterStrictlyHigher ==
    pc = "scored" =>
        (scorer.hours_old[1] < scorer.hours_old[2] => scorer.base[1] > scorer.base[2])

\* the recency of the article number a of the state is at a bound of the
\* clamp of scorer.py:40
recency_clamped(a) ==
    LET half_life_hours == scorer.scoring_config.recency.half_life_hours
    IN  \/ scorer.hours_old[a] <= 0
        \/ /\ scorer.hours_old[a] > 24
           /\ 10 * pow_half(scorer.hours_old[a] \div half_life_hours) <= RecencyUnit

\* C12 amended: the later date never gets a lower pre-penalty score, and
\* gets a strictly higher one unless the recency of both articles is
\* clamped (both dates not in the past: 5; both older than 24 hours with
\* 5 * 0.5 ^ (age / half life) <= 0.5: 0).
C12_LaterHigherUnlessClamped ==
    pc = "scored" =>
        (scorer.hours_old[1] < scorer.hours_old[2] =>
            /\ scorer.base[1] >= scorer.base[2]
            /\ (~ (recency_clamped(1) /\ recency_clamped(2))
                => scorer.base[1] > scorer.base[2]))

\* C12 witness: across the 24 hour boundary, 24 hours old against 36 hours
\* old with a half life of 12 hours, the older article loses the extra 0.5
\* of recency: 0.15 * (1.25 - 0.125) of score
C12_Witness ==
    /\ pc = "scored"
    /\ scorer.hours_old = << 24, 36 >>
    /\ scorer.scoring_config.recency.half_life_hours = 12
    /\ 8 * 100 * (scorer.base[1] - scorer.base[2]) = 15 * 9 * ScoreUnit

(***************************************************************************)
(* Claims about should_drop_article (checked under SpecDriver)             *)
(***************************************************************************)

\* the drop_if rules in the words of the specification, a threshold that
\* is not configured having its default and the content-quality rules
\* existing when a content_quality section is configured
rule_fires(ev) ==
    LET threshold(cfg, k, default) == IF k \in DOMAIN cfg THEN cfg[k] ELSE default
        field(k, default) == IF k \in DOMAIN ev THEN ev[k] ELSE default
        quality == threshold(drop_if, "content_quality", << >>)
        long_enough(f) ==
            \/ threshold(quality, "insight_min_chars_each", 15) <= 0
            \/ /\ f \in DOMAIN ev
               /\ \E i, j \in 1..Len(ev[f]) :
                     /\ ev[f][i] # " " /\ ev[f][j] # " "
                     /\ j - i + 1 >= threshold(quality, "insight_min_chars_each", 15)
    IN  \/ field("topic", "") \in threshold(drop_if, "topic_in", {})
        \/ field("impact", 0) <= threshold(drop_if, "impact_lte", 0)
        \/ field("proof", 0) <= threshold(drop_if, "proof_lte", 0)
        \/ /\ DOMAIN quality # {}
           /\ \/ Len(field("summary", << >>)) < threshold(quality, "summary_min_chars", 200)
              \/ Cardinality({ f \in { "why_it_matters", "key_evidence", "who_should_care",
                                       "next_action", "comparison" } : long_enough(f) })
                    < threshold(quality, "insight_min_filled", 2)

\* C13: an evaluated article is dropped by the filter if and only if one of
\* the drop_if rules fires on its evaluation (topic in topic_in, impact <=
\* impact_lte, proof <= proof_lte, summary shorter than summary_min_chars,
\* fewer than insight_min_filled insight fields of stripped length >=
\* insight_min_chars_each), and no such article is in the final slate.
C13_DroppedIffRuleFires ==
    /\ pc \in {"filtered", "unique", "sorted", "slate"} =>
          \A i \in 1..Len(all_evaluated_articles) :
              in_list(all_evaluated_articles[i], filtered_articles)
              <=> ~ rule_fires(all_evaluated_articles[i].evaluate)
    /\ pc = "slate" =>
          \A i \in 1..Len(selected) : ~ rule_fires(selected[i].evaluate)

\* C13 witness: with every rule configured, an article on which only the
\* insight rule fires is dropped, another article is kept and selected
C13_Witness ==
    /\ pc = "slate"
    /\ drop_if = AllRules
    /\ Len(selected) >= 1
    /\ \E i \in 1..Len(all_evaluated_articles) :
          LET ev == all_evaluated_articles[i].evaluate
          IN  /\ ev.topic = "Model" /\ ev.impact = 2 /\ ev.proof = 2 /\ Len(ev.summary) = 4
              /\ ev.why_it_matters = << " ", "s", " " >>
              /\ ~ in_list(all_evaluated_articles[i], filtered_articles)

(***************************************************************************)
(* text_cleaner.py, summary.py and mainflow.py:294-324: the evaluation of  *)
(* one source group.  The characters "<robot>" and "<fire>" stand for the  *)
(* emoji U+1F916 and U+1F525.                                              *)
(***************************************************************************)

\* text_cleaner.py:42-70: the emoji of the alphabet
Emoji == { "<robot>", "<fire>" }

\* text_cleaner.py:77: re.sub(r' +', ' ', text)
RECURSIVE squeeze_blanks(_)
squeeze_blanks(s) ==
    IF Len(s) < 2 THEN s
    ELSE IF s[1] = " " /\ s[2] = " " THEN squeeze_blanks(Tail(s))
    ELSE << s[1] >> \o squeeze_blanks(Tail(s))

\* text_cleaner.py:80: re.sub(r'^(#{1,6})\s+', r'\1 ', text): one to six "#"
\* at the start of the text keep one blank of the blanks that follow them
header_blanks(s) ==
    LET hashes == CHOOSE n \in 0..Len(s) :
                      /\ \A i \in 1..n : s[i] = "#"
                      /\ n = Len(s) \/ s[n + 1] # "#"
        rest == SubSeq(s, hashes + 1, Len(s))
    IN  IF hashes \in 1..6 /\ rest # << >> /\ rest[1] = " "
        THEN SubSeq(s, 1, hashes) \o << " " >> \o lstrip(rest)
        ELSE s

\* text_cleaner.py:8-85
remove_emojis(text) ==
    IF text = << >> THEN text
    ELSE strip(header_blanks(squeeze_blanks(SelectSeq(text, LAMBDA ch : ch \notin Emoji))))

\* text_cleaner.py:88-128, on the fields the model keeps
clean_article_content(evaluate_dict) ==
    IF DOMAIN evaluate_dict = {} THEN evaluate_dict
    ELSE [k \in DOMAIN evaluate_dict |->
            IF k \in {"title", "summary"} /\ evaluate_dict[k] # << >>
            THEN remove_emojis(evaluate_dict[k])
            ELSE evaluate_dict[k]]

\* summary.py:34-39: the provider's response as a list; a response that is
\* not JSON is None, a single object is a list of one
results_of(response) ==
    IF response.shape = "none" THEN << >>
    ELSE IF response.shape = "object" THEN << response.body >>
    ELSE response.body

\* summary.py:44
evaluate_list_of(all_results) ==
    SelectSeq(all_results,
              LAMBDA item : get(item, "title", << >>) # << >> /\ get(item, "link", << >>) # << >>)

\* summary.py:11-51, after the provider's response
evaluate_article_with_gpt(group, response) ==
    IF group = << >> THEN << >>
    ELSE LET evaluate_list == evaluate_list_of(results_of(response))
         IN  [n \in 1..Len(evaluate_list) |-> clean_article_content(evaluate_list[n])]

\* the scoring configuration of the run
EvaluationScoring == [recency |-> [half_life_hours |-> 12]]

\* mainflow.py:299-320.  An article's evaluate is a reference to one of the
\* result dicts (ref, 0 for None): two articles with one link share the
\* dict, and the score written for the one is the score of the other.
attach_evaluations(group, evaluate_results) ==
    LET steps == Len(evaluate_results) * Len(group)
        F[n \in 0..steps] ==
            IF n = 0
            THEN [results |-> evaluate_results, ref |-> [a \in 1..Len(group) |-> 0]]
            ELSE Eval(F[n - 1], LAMBDA st :
                    LET e == ((n - 1) \div Len(group)) + 1
                        a == ((n - 1) % Len(group)) + 1
                    IN  IF group[a].link # get(st.results[e], "link", << >>) THEN st
                        ELSE IF group[a].date.kind = "missing"
                        THEN [st EXCEPT !.ref[a] = e]
                        ELSE [results |->
                                [st.results EXCEPT ![e] =
                                    [k \in DOMAIN @ \cup {"score"} |->
                                        IF k = "score"
                                        THEN calculate_score(st.results[e],
                                                 IF group[a].date.kind = "parsed"
                                                 THEN group[a].date.hours_old ELSE 0,
                                                 EvaluationScoring)
                                        ELSE @[k]]],
                              ref |-> [st.ref EXCEPT ![a] = e]])
    IN  Eval(F[steps], LAMBDA st :
            [a \in 1..Len(group) |->
                [group[a] EXCEPT !.evaluate = IF st.ref[a] = 0 THEN << >> ELSE st.results[st.ref[a]]]])

\* mainflow.py:323: the articles with an evaluation
valid_articles_of(group) == SelectSeq(group, LAMBDA item : DOMAIN item.evaluate # {})

(***************************************************************************)
(* The source groups and provider responses the evaluation is checked on.  *)
(***************************************************************************)

MaxResults == 2

candidate_of(i, link, date) == [id |-> i, link |-> link, date |-> date, evaluate |-> << >>]

Parsed(h) == [kind |-> "parsed", hours_old |-> h]

\* two articles; two articles with one link; one article whose date is
\* missing; one whose date string does not parse
EvaluatedGroups ==
    { << candidate_of(1, LinkP, Parsed(12)), candidate_of(2, LinkQ, Parsed(24)) >>,
      << candidate_of(1, LinkP, Parsed(0)), candidate_of(2, LinkP, Parsed(36)) >>,
      << candidate_of(1, LinkP, [kind |-> "missing"]) >>,
      << candidate_of(1, LinkQ, [kind |-> "unparsable"]) >> }

result_of(title, link) ==
    [title |-> title, link |-> link, topic |-> "Model", impact |-> 4, novelty |-> 3,
     proof |-> 2, summary |-> << "<fire>", " ", "o", "k" >>]

\* results for LinkP and LinkQ, for a link of no article, with a title made
\* only of emoji, with a blank title, with an empty title, without a link
ProviderResults ==
    { result_of(<< "#", " ", " ", "<robot>", "a", " ", " ", "b" >>, LinkP),
      result_of(<< "c", "d" >>, LinkQ),
      result_of(<< "e", "f" >>, LinkR),
      result_of(<< "<robot>", "<fire>" >>, LinkP),
      result_of(<< " " >>, LinkQ),
      result_of(<< >>, LinkP),
      [title |-> << "g", "h" >>, impact |-> 4],
      [link |-> LinkQ, summary |-> << "o", "k" >>] }

InitEvaluate ==
    /\ pc = "group_given"
    /\ \E group \in EvaluatedGroups :
          \/ evaluator = [articles |-> group, response |-> [shape |-> "none"],
                          evaluate_results |-> << >>, valid_articles |-> << >>]
          \/ \E r \in ProviderResults :
                evaluator = [articles |-> group, response |-> [shape |-> "object", body |-> r],
                             evaluate_results |-> << >>, valid_articles |-> << >>]
          \/ \E n \in 0..MaxResults : \E rs \in [1..n -> ProviderResults] :
                evaluator = [articles |-> group, response |-> [shape |-> "list", body |-> rs],
                             evaluate_results |-> << >>, valid_articles |-> << >>]
    /\ scorer = << >> /\ FEED_METRICS = << >> /\ sampler = << >> /\ github = << >> /\ run = << >>
    /\ url = << >> /\ variant = << >> /\ kind = << >>
    /\ canon = << >> /\ canon_again = << >> /\ canon_variant = << >>
    /\ articles = << >>
    /\ seen_urls = << >> /\ seen_titles = << >> /\ unique_articles = << >>
    /\ min_quotas = << >> /\ max_quotas = << >> /\ target_count = 0 /\ selected = << >>
    /\ all_evaluated_articles = << >> /\ filtered_articles = << >> /\ drop_if = << >>

\* mainflow.py:297: evaluate_results = evaluate_article_with_gpt(articles)
RequestEvaluation ==
    /\ pc = "group_given"
    /\ evaluator' =
          [evaluator EXCEPT
              !.evaluate_results =
                  evaluate_article_with_gpt(evaluator.articles, evaluator.response)]
    /\ pc' = "results_given"
    /\ UNCHANGED << urlVars, articles, dedupVars, quotaVars, driverVars,
                    scorer, FEED_METRICS, sampler, github, run >>

\* mainflow.py:299-324
AttachEvaluations ==
    /\ pc = "results_given"
    /\ \E attached \in { attach_evaluations(evaluator.articles, evaluator.evaluate_results) } :
          /\ evaluator' = [evaluator EXCEPT !.articles = attached,
                                            !.valid_articles = valid_articles_of(attached)]
          /\ all_evaluated_articles' = all_evaluated_articles \o valid_articles_of(attached)
    /\ pc' = "attached"
    /\ UNCHANGED << urlVars, articles, dedupVars, quotaVars, filtered_articles, drop_if,
                    scorer, FEED_METRICS, sampler, github, run >>

NextEvaluate == RequestEvaluation \/ AttachEvaluations

SpecEvaluate == InitEvaluate /\ [][NextEvaluate]_vars

\* C14: every article kept after the evaluation has a non-empty
\* evaluate.title and a non-empty evaluate.link, and its evaluate.link is its
\* own link, for any list of results the provider returns.
C14_KeptHasTitleAndLink ==
    pc = "attached" =>
        \A i \in 1..Len(all_evaluated_articles) :
            LET article == all_evaluated_articles[i]
            IN  /\ get(article.evaluate, "title", << >>) # << >>
                /\ get(article.evaluate, "link", << >>) # << >>
                /\ get(article.evaluate, "link", << >>) = article.link


(***************************************************************************)
(* Stratified sampling: mainflow.stratified_sample_with_priority           *)
(***************************************************************************)

\* The variables no step of the sampling or of the metrics writes.
sampleIdle == << urlVars, articles, dedupVars, min_quotas, max_quotas, target_count,
                 driverVars, scorer, evaluator, github, run >>

\* mainflow.py:24-26: the config of an article, {} unless it is a dict.  An
\* article of the model always carries a dict, possibly without keys.
article_config(article) == article.config

\* isinstance(article.info, dict): an info that is not a dict is the record
\* NotADict.
NotADict == [not_a_dict |-> TRUE]
is_dict(info) == "not_a_dict" \notin DOMAIN info

\* mainflow.py:29-35.  A title is truthy when it is not the empty string.
article_feed_title(article) ==
    IF get(article_config(article), "title", "") # ""
    THEN article_config(article).title
    ELSE IF is_dict(article.info)
         THEN get(article.info, "title", "Unknown")
         ELSE "Unknown"

\* mainflow.py:38-46, with default = "P2_RAW".
article_tier(article) ==
    IF get(article_config(article), "tier", "") # ""
    THEN article_config(article).tier
    ELSE IF is_dict(article.info) /\ get(article.info, "tier", "") # ""
         THEN article.info.tier
         ELSE "P2_RAW"

\* mainflow.py:195-201: the allocation table, in the order of the dict.
tier_allocation ==
    << [k |-> "P0_CURATED", a |-> 30],
       [k |-> "P0_RELEASES", a |-> 12],
       [k |-> "P1_CONTEXT", a |-> 20],
       [k |-> "P2_RAW", a |-> 20],
       [k |-> "COMMUNITY", a |-> 18] >>

\* mainflow.py:273: max_analyze_nums, the max_total find_favorite_article passes.
max_analyze_nums == 100

\* The subsets of S that have k elements.
RECURSIVE Combinations(_, _)
Combinations(S, k) ==
    IF k = 0
    THEN { {} }
    ELSE UNION { { T \cup { x } : T \in Combinations({ y \in S : y > x }, k - 1) } : x \in S }

\* The sets of k positions among n, built from the smaller side.
positions_of(n, k) ==
    IF 2 * k > n
    THEN { (1..n) \ left_out : left_out \in Combinations(1..n, n - k) }
    ELSE Combinations(1..n, k)

\* The elements of a list at the positions P, in the order of the list.
at_positions(list, P) ==
    Eval(SelectSeq([ i \in 1..Len(list) |-> i ], LAMBDA i : i \in P),
         LAMBDA kept : [ j \in 1..Len(kept) |-> list[kept[j]] ])

\* random.sample(population, k): k elements at distinct positions.  Every
\* choice of positions is possible; the order in which the sample lists them
\* is not modelled (the elements are listed in the order of the population).
random_sample(population, k) ==
    { at_positions(population, P) : P \in positions_of(Len(population), k) }

\* mainflow.py:203-209 and :215: tier_groups.get(tier, []).  An article is
\* named by its position in rss_articles, which stands for the object.
tier_group(rss_articles, tier) ==
    SelectSeq([ i \in 1..Len(rss_articles) |-> i ],
              LAMBDA i : article_tier(rss_articles[i]) = tier)

\* mainflow.py:229: all_remaining = [a for a in rss_articles if a not in sampled]
\* (Article defines no __eq__: "in" compares objects).
all_remaining_of(rss_articles, sampled) ==
    Eval({ sampled[j] : j \in 1..Len(sampled) },
         LAMBDA taken : SelectSeq([ i \in 1..Len(rss_articles) |-> i ],
                                  LAMBDA i : i \notin taken))

\* A fill that adds nothing.
additional_none(remaining_quota, all_remaining) == 0

\* mainflow.py:231: additional = min(remaining_quota, len(all_remaining))
additional_of(remaining_quota, all_remaining) == Min(remaining_quota, Len(all_remaining))

\* mainflow.py:49-69 on the feeds of a registry: one record per feed title,
\* the first feed of a title giving it.
initialize_all_feed_metrics(rss_items) ==
    [ feed_title \in { get(rss_items[i], "title", "Unknown") : i \in 1..Len(rss_items) } |->
        [title |-> feed_title, find_count |-> 0, candidate_count |-> 0, release_count |-> 0] ]

\* mainflow.py:236-239 and :349-351: one counter of the record of every listed
\* article's feed raised by one, articles of a feed that has no record skipped.
count_articles(metrics, listed, counter) ==
    [ feed_title \in DOMAIN metrics |->
        [ metrics[feed_title] EXCEPT
            ![counter] = @ + Cardinality({ j \in 1..Len(listed) :
                                            article_feed_title(listed[j]) = feed_title }) ] ]

\* The articles a list of positions names.
articles_at(rss_articles, listed) == [ j \in 1..Len(listed) |-> rss_articles[listed[j]] ]

\* How many articles beyond its allocation the crowded tier of an input has.
MaxExtra == 1

\* n articles of one feed, with the ids first + 1 .. first + n.
feed_articles(config, first, n) ==
    [ j \in 1..n |-> [id |-> first + j, config |-> config, info |-> [title |-> "channel"]] ]

\* The feed of the tier at index t of the table.
feed_of_tier(t) == [title |-> tier_allocation[t].k, tier |-> tier_allocation[t].k]

\* A feed whose tier is not in the table, and a feed that names no tier.
OffTableFeed == [title |-> "archive", tier |-> "P3_ARCHIVE"]
UntieredFeed == [title |-> "plain"]

\* The n articles of the tier at index t: of the feed of the tier, but the
\* first P2_RAW article of the feed that names no tier.
tier_articles_of(t, first, n) ==
    IF tier_allocation[t].k = "P2_RAW" /\ n > 0
    THEN feed_articles(UntieredFeed, first, 1) \o feed_articles(feed_of_tier(t), first + 1, n - 1)
    ELSE feed_articles(feed_of_tier(t), first, n)

\* The articles of an input: counts[t] articles of the tier at index t, then
\* the stray article of no tier of the table.
RECURSIVE tiered_articles(_, _, _)
tiered_articles(counts, t, first) ==
    IF t > Len(tier_allocation)
    THEN << >>
    ELSE tier_articles_of(t, first, counts[t])
            \o tiered_articles(counts, t + 1, first + counts[t])

input_of(counts, stray) ==
    LET tiered == tiered_articles(counts, 1, 0)
    IN  tiered \o (IF stray THEN feed_articles(OffTableFeed, Len(tiered), 1) ELSE << >>)

\* The tiers an input may crowd: the two of the smallest allocations, which
\* have the fewest samples.
CrowdedTiers == { 2, 5 }

\* The inputs.  One tier holds its allocation and up to MaxExtra articles
\* more; of the other tiers at most one is short, by one article or by all of
\* them, and the rest hold exactly their allocation.
SampleCounts ==
    LET Tiers == 1..Len(tier_allocation)
        full == [ t \in Tiers |-> tier_allocation[t].a ]
        crowded == { [ full EXCEPT ![c] = full[c] + extra ] : c \in CrowdedTiers, extra \in 0..MaxExtra }
    IN  crowded \cup { [ counts EXCEPT ![s] = IF all THEN 0 ELSE tier_allocation[s].a - 1 ] :
                          counts \in crowded, s \in Tiers, all \in BOOLEAN }

\* The targets asked for: the caller's, and a smaller one for an input of
\* fewer articles than the caller's target.
SampleTargets(rss_articles) ==
    IF Len(rss_articles) < max_analyze_nums THEN { 1, max_analyze_nums } ELSE { max_analyze_nums }

\* The feeds the inputs come from.
SampleRegistry ==
    [ t \in 1..Len(tier_allocation) |-> feed_of_tier(t) ] \o << OffTableFeed, UntieredFeed >>

\* mainflow.py:178: the arguments, and the locals before the loop of :214.
InitSample ==
    /\ pc = "sampling"
    /\ \E counts \in SampleCounts, stray \in BOOLEAN :
       \E rss_articles \in { input_of(counts, stray) } :
       \E max_total \in SampleTargets(rss_articles) :
          sampler = [rss_articles |-> rss_articles, max_total |-> max_total,
                     tier |-> 1, sampled |-> << >>, remaining_quota |-> 0]
    /\ FEED_METRICS = initialize_all_feed_metrics(SampleRegistry)
    /\ scorer = << >> /\ evaluator = << >> /\ github = << >> /\ run = << >>
    /\ url = << >> /\ variant = << >> /\ kind = << >>
    /\ canon = << >> /\ canon_again = << >> /\ canon_variant = << >>
    /\ articles = << >>
    /\ seen_urls = << >> /\ seen_titles = << >> /\ unique_articles = << >>
    /\ min_quotas = << >> /\ max_quotas = << >> /\ target_count = 0 /\ selected = << >>
    /\ all_evaluated_articles = << >> /\ filtered_articles = << >> /\ drop_if = << >>

\* mainflow.py:214-225: one pass of the loop over the table.
SampleTier ==
    /\ pc = "sampling"
    /\ sampler.tier <= Len(tier_allocation)
    /\ LET target == tier_allocation[sampler.tier].a
           tier_articles == tier_group(sampler.rss_articles, tier_allocation[sampler.tier].k)
       IN  IF Len(tier_articles) >= target
           THEN \E chosen \in random_sample(tier_articles, target) :
                   sampler' = [sampler EXCEPT !.sampled = @ \o chosen, !.tier = @ + 1]
           ELSE sampler' = [sampler EXCEPT
                               !.sampled = @ \o tier_articles,
                               !.remaining_quota = @ + (target - Len(tier_articles)),
                               !.tier = @ + 1]
    /\ UNCHANGED << pc, FEED_METRICS, selected, sampleIdle >>

\* mainflow.py:228-232
FillRemaining ==
    /\ pc = "sampling"
    /\ sampler.tier > Len(tier_allocation)
    /\ LET all_remaining == all_remaining_of(sampler.rss_articles, sampler.sampled)
       IN  IF sampler.remaining_quota > 0 /\ Len(all_remaining) > 0
           THEN \E extra \in random_sample(all_remaining,
                                           additional_of(sampler.remaining_quota, all_remaining)) :
                   sampler' = [sampler EXCEPT !.sampled = @ \o extra]
           ELSE UNCHANGED sampler
    /\ pc' = "filled"
    /\ UNCHANGED << FEED_METRICS, selected, sampleIdle >>

\* mainflow.py:235-247: candidate_count, then the sample is returned.
TrackCandidates ==
    /\ pc = "filled"
    /\ FEED_METRICS' = count_articles(FEED_METRICS,
                                      articles_at(sampler.rss_articles, sampler.sampled),
                                      "candidate_count")
    /\ pc' = "sampled"
    /\ UNCHANGED << sampler, selected, sampleIdle >>

NextSample == SampleTier \/ FillRemaining \/ TrackCandidates

SpecSample == InitSample /\ [][NextSample]_vars


\* The positions of a list are pairwise different articles.
no_article_twice(listed) ==
    Cardinality({ listed[j] : j \in 1..Len(listed) }) = Len(listed)

\* C17: for any input list and any target max_total, the sample holds at
\* most max_total articles, and no input article twice.
C17_AtMostMaxTotal ==
    pc = "sampled" =>
        /\ Len(sampler.sampled) <= sampler.max_total
        /\ no_article_twice(sampler.sampled)

\* How many of the listed articles are of a tier.
in_tier(rss_articles, listed, tier) ==
    Cardinality({ j \in 1..Len(listed) : article_tier(rss_articles[listed[j]]) = tier })

\* The sum of f over the tiers of the table from index t on.
RECURSIVE over_tiers(_, _)
over_tiers(f, t) == IF t > Len(tier_allocation) THEN 0 ELSE f[t] + over_tiers(f, t + 1)

\* n_t, the number of input articles of the tier at index t of the table.
input_in_tier(t) ==
    in_tier(sampler.rss_articles, [ i \in 1..Len(sampler.rss_articles) |-> i ],
            tier_allocation[t].k)

\* n_t for every tier of the table.
input_counts == [ t \in 1..Len(tier_allocation) |-> input_in_tier(t) ]

\* What the tiers of the table give together, and what they lack together,
\* when they hold n[t] input articles.
taken_by_tiers(n) ==
    over_tiers([ t \in 1..Len(tier_allocation) |-> Min(tier_allocation[t].a, n[t]) ], 1)
summed_deficit(n) ==
    over_tiers([ t \in 1..Len(tier_allocation) |-> Max(0, tier_allocation[t].a - n[t]) ], 1)

\* C18: the sample holds, of every tier of the table, at least the smaller of
\* its allocation and the number of input articles of the tier; beyond what
\* the tiers give it holds as many further input articles as the tiers lack
\* together, or all the others when they are fewer; and no article twice.
C18_TierMinimumAndFill ==
    pc = "sampled" =>
        \E n \in { input_counts } : \E taken \in { taken_by_tiers(n) } :
            /\ \A t \in 1..Len(tier_allocation) :
                  in_tier(sampler.rss_articles, sampler.sampled, tier_allocation[t].k)
                      >= Min(tier_allocation[t].a, n[t])
            /\ Len(sampler.sampled) =
                  taken + Min(summed_deficit(n), Len(sampler.rss_articles) - taken)
            /\ no_article_twice(sampler.sampled)
            /\ \A j \in 1..Len(sampler.sampled) :
                  sampler.sampled[j] \in 1..Len(sampler.rss_articles)

\* A sample of an input with a tier over its allocation and a tier under it,
\* filled with some but not all of the articles the tiers left.
C18_Witness ==
    /\ pc = "sampled"
    /\ Len(sampler.sampled) < Len(sampler.rss_articles)
    /\ \E n \in { input_counts } :
          /\ \E t \in 1..Len(tier_allocation) : n[t] > tier_allocation[t].a
          /\ \E t \in 1..Len(tier_allocation) : n[t] < tier_allocation[t].a
          /\ Len(sampler.sampled) > taken_by_tiers(n)


(***************************************************************************)
(* The metrics of a run: mainflow.execute                                  *)
(***************************************************************************)

\* How many articles one feed gives at most.
MaxFetched == 2

\* The registries: two feeds of different titles, a feed that has no title, and
\* two feeds of the same title.
Registries ==
    { << [title |-> "A", tier |-> "P0_CURATED"], [title |-> "B"] >>,
      << [title |-> "A", tier |-> "P0_CURATED"], [tier |-> "P1_CONTEXT"] >>,
      << [title |-> "A", tier |-> "P0_CURATED"], [title |-> "A", tier |-> "COMMUNITY"] >> }

\* The channel of a parsed feed: with a title of its own, or without one.
Channels == { [title |-> "channel"], [link |-> "http://h/"] }

\* rss.py:373-426, parse_rss_config: the articles of one feed, each with the
\* feed as config and the channel of the feed as info (rss.py:624-632).
parse_rss_config(rss_config, channel, first, n) ==
    [ j \in 1..n |-> [id |-> first + j, config |-> rss_config, info |-> channel] ]

\* The lists parse_rss_config gives for the feeds of a registry, by feed:
\* counts[i] articles for the feed at index i.
RECURSIVE fetched_lists(_, _, _, _, _)
fetched_lists(rss_items, channel, counts, i, first) ==
    IF i > Len(rss_items)
    THEN << >>
    ELSE << parse_rss_config(rss_items[i], channel, first, counts[i]) >>
            \o fetched_lists(rss_items, channel, counts, i + 1, first + counts[i])

\* The concatenation of a list of lists.
RECURSIVE flatten(_)
flatten(lists) == IF lists = << >> THEN << >> ELSE Head(lists) \o flatten(Tail(lists))

\* mainflow.py:160-175: the loop over the feeds, which sets find_count of the
\* record of the feed's title to the length of the feed's list.
RECURSIVE count_found(_, _, _, _)
count_found(metrics, rss_items, lists, i) ==
    IF i > Len(rss_items)
    THEN metrics
    ELSE LET feed_title == get(rss_items[i], "title", "Unknown")
         IN  count_found(
                 IF feed_title \in DOMAIN metrics
                 THEN [metrics EXCEPT ![feed_title].find_count = Len(lists[i])]
                 ELSE metrics,
                 rss_items, lists, i + 1)

\* The variables the steps of a run leave alone.
runIdle == << urlVars, articles, dedupVars, min_quotas, max_quotas, target_count,
              driverVars, scorer, evaluator, github >>

\* mainflow.py:18: FEED_METRICS = {} when the module is loaded.  The run has
\* a registry; the feeds give some articles; with RSS_CACHE_ENABLE the file of
\* the day may exist and then holds what the feeds gave earlier that day
\* (save_article, mainflow.py:378-386).
InitRun ==
    /\ pc = "loaded"
    /\ FEED_METRICS = << >>
    /\ \E rss_items \in Registries, channel \in Channels, cached \in BOOLEAN :
       \E counts \in [1..2 -> 0..MaxFetched] :
          run = [rss_items |-> rss_items,
                 fetched |-> fetched_lists(rss_items, channel, counts, 1, 0),
                 cache_file |-> cached,
                 origin_article_list |-> << >>]
    /\ sampler = << >>
    /\ scorer = << >> /\ evaluator = << >> /\ github = << >>
    /\ url = << >> /\ variant = << >> /\ kind = << >>
    /\ canon = << >> /\ canon_again = << >> /\ canon_variant = << >>
    /\ articles = << >>
    /\ seen_urls = << >> /\ seen_titles = << >> /\ unique_articles = << >>
    /\ min_quotas = << >> /\ max_quotas = << >> /\ target_count = 0 /\ selected = << >>
    /\ all_evaluated_articles = << >> /\ filtered_articles = << >> /\ drop_if = << >>

\* mainflow.py:117-123: execute resets the metrics and initializes them.
InitializeMetrics ==
    /\ pc = "loaded"
    /\ FEED_METRICS' = initialize_all_feed_metrics(run.rss_items)
    /\ pc' = "initialized"
    /\ UNCHANGED << run, sampler, selected, runIdle >>

\* mainflow.py:126-127 and 151-175, parse_daily_rss_article, then the call of
\* the sampler at mainflow.py:274.  With a cache file the articles are decoded
\* from it and the function returns at mainflow.py:155-156.
ParseDailyRssArticle ==
    /\ pc = "initialized"
    /\ \E daily_rss \in { flatten(run.fetched) } :
          /\ run' = [run EXCEPT !.origin_article_list = daily_rss]
          /\ sampler' = [rss_articles |-> daily_rss, max_total |-> max_analyze_nums,
                         tier |-> 1, sampled |-> << >>, remaining_quota |-> 0]
    /\ FEED_METRICS' = IF run.cache_file
                       THEN FEED_METRICS
                       ELSE count_found(FEED_METRICS, run.rss_items, run.fetched, 1)
    /\ pc' = "sampling"
    /\ UNCHANGED << selected, runIdle >>

\* mainflow.py:276-345: grouping, evaluation, filter, deduplication, sort and
\* quotas.  They take articles away from the sample and add none, so the
\* slate is any choice of sampled articles; its order does not matter here.
SelectArticles ==
    /\ pc = "sampled"
    /\ \E P \in SUBSET (1..Len(sampler.sampled)) :
          selected' = articles_at(sampler.rss_articles, at_positions(sampler.sampled, P))
    /\ pc' = "selected"
    /\ UNCHANGED << run, sampler, FEED_METRICS, runIdle >>

\* mainflow.py:347-355: release_count.
TrackRelease ==
    /\ pc = "selected"
    /\ FEED_METRICS' = count_articles(FEED_METRICS, selected, "release_count")
    /\ pc' = "done"
    /\ UNCHANGED << run, sampler, selected, runIdle >>

NextRun ==
    \/ InitializeMetrics
    \/ ParseDailyRssArticle
    \/ SampleTier
    \/ FillRemaining
    \/ TrackCandidates
    \/ SelectArticles
    \/ TrackRelease

SpecRun == InitRun /\ [][NextRun]_vars

\* The sum of one counter over the records of the metrics.
RECURSIVE sum_of(_, _, _)
sum_of(metrics, titles, counter) ==
    IF titles = {}
    THEN 0
    ELSE LET feed_title == CHOOSE t \in titles : TRUE
         IN  metrics[feed_title][counter] + sum_of(metrics, titles \ { feed_title }, counter)

\* C15: at the end of every run the release_count of all sources together is
\* the number of articles of the final slate.
C15_ReleasedIsSlate ==
    pc = "done" =>
        sum_of(FEED_METRICS, DOMAIN FEED_METRICS, "release_count") = Len(selected)

\* C16: at the end of every run, fetched or loaded from the cache of the day,
\* every source has release_count <= candidate_count <= find_count.
C16_CountsOrdered ==
    pc = "done" =>
        \A feed_title \in DOMAIN FEED_METRICS :
            /\ FEED_METRICS[feed_title].release_count <= FEED_METRICS[feed_title].candidate_count
            /\ FEED_METRICS[feed_title].candidate_count <= FEED_METRICS[feed_title].find_count


(***************************************************************************)
(* The GitHub client: github_client._make_request_with_retry               *)
(***************************************************************************)

\* github_client.py:23-24
MAX_RETRIES == 3
RETRY_DELAYS_FLAT == << 1, 1, 1 >>
RETRY_DELAYS == << 1, 3, 7 >>

\* The variables no step of the client writes.
githubIdle == << urlVars, articles, dedupVars, quotaVars, driverVars,
                 scorer, evaluator, FEED_METRICS, sampler, run >>

\* What requests.get gives: a response with a status code and, on 403 and
\* 429, possibly the header X-RateLimit-Reset, or an exception.  wait is the
\* header's time less the time of the clock when the response is handled
\* (github_client.py:132-133).
status_response(code) == [kind |-> "response", status_code |-> code, has_reset |-> FALSE, wait |-> 0]
limited_response(code, wait) ==
    [kind |-> "response", status_code |-> code, has_reset |-> TRUE, wait |-> wait]
raised(exception) == [kind |-> exception, status_code |-> 0, has_reset |-> FALSE, wait |-> 0]

ResetWaits == { -1, 0, 1, 299, 300 }

Responses ==
    { status_response(code) : code \in { 200, 304, 403, 404, 429, 500, 503 } }
        \cup { limited_response(code, wait) : code \in { 403, 429 }, wait \in ResetWaits }
        \cup { raised("Timeout"), raised("ConnectionError") }

NoResponse == raised("none")

\* What the log of a call holds: the requests sent and the sleeps made.
sent(response) == [e |-> "request", response |-> response, seconds |-> 0]
slept(seconds) == [e |-> "sleep", response |-> NoResponse, seconds |-> seconds]

\* github_client.py:116-118: the call before its first attempt.
InitGithub ==
    /\ pc = "request"
    /\ github = [attempt |-> 0, response |-> NoResponse, log |-> << >>, result |-> "running"]
    /\ scorer = << >> /\ evaluator = << >> /\ FEED_METRICS = << >> /\ sampler = << >>
    /\ run = << >>
    /\ url = << >> /\ variant = << >> /\ kind = << >>
    /\ canon = << >> /\ canon_again = << >> /\ canon_variant = << >>
    /\ articles = << >>
    /\ seen_urls = << >> /\ seen_titles = << >> /\ unique_articles = << >>
    /\ min_quotas = << >> /\ max_quotas = << >> /\ target_count = 0 /\ selected = << >>
    /\ all_evaluated_articles = << >> /\ filtered_articles = << >> /\ drop_if = << >>

\* github_client.py:118-121: the next pass of the loop sends the request.
SendRequest ==
    /\ pc = "request"
    /\ github.attempt < MAX_RETRIES
    /\ \E response \in Responses :
          github' = [github EXCEPT !.response = response, !.log = Append(@, sent(response))]
    /\ pc' = "responded"
    /\ UNCHANGED githubIdle

\* The call ends: it returns or raises.
finish(call, result) == [call EXCEPT !.result = result]

\* time.sleep(seconds), then the next pass of the loop.
sleep_and_continue(call, seconds) ==
    [call EXCEPT !.log = Append(@, slept(seconds)), !.attempt = @ + 1]

\* github_client.py:155-171: the handlers of Timeout and RequestException,
\* which sleep RETRY_DELAYS[attempt] before the last attempt and raise
\* GitHubAPIError at the last one.
on_request_exception(call) ==
    IF call.attempt < MAX_RETRIES - 1
    THEN sleep_and_continue(call, RETRY_DELAYS[call.attempt + 1])
    ELSE finish(call, "GitHubAPIError")

\* github_client.py:123-153: the handling of a response.  raise_for_status
\* raises HTTPError, a RequestException, for the codes 400 to 599, and the
\* handler of github_client.py:164 catches it.
on_response(call) ==
    LET response == call.response
    IN  IF response.status_code = 304
        THEN finish(call, "returned_cached")
        ELSE IF response.status_code \in { 403, 429 }
        THEN IF response.has_reset /\ response.wait > 0 /\ response.wait < 300
             THEN sleep_and_continue(call, response.wait + 1)
             ELSE finish(call, "GitHubRateLimitError")
        ELSE IF 500 <= response.status_code /\ response.status_code < 600
        THEN IF call.attempt < MAX_RETRIES - 1
             THEN sleep_and_continue(call, RETRY_DELAYS[call.attempt + 1])
             ELSE on_request_exception(call)
        ELSE IF 400 <= response.status_code /\ response.status_code < 600
        THEN on_request_exception(call)
        ELSE finish(call, "returned")

\* github_client.py:123-171: one pass of the loop after requests.get.
HandleResponse ==
    /\ pc = "responded"
    /\ \E call \in { IF github.response.kind = "response"
                     THEN on_response(github)
                     ELSE on_request_exception(github) } :
          /\ github' = call
          /\ pc' = IF call.result = "running" THEN "request" ELSE "finished"
    /\ UNCHANGED githubIdle

\* github_client.py:173-174: the loop ends without a return or a raise.
LoopExhausted ==
    /\ pc = "request"
    /\ github.attempt >= MAX_RETRIES
    /\ github' = finish(github, "GitHubAPIError")
    /\ pc' = "finished"
    /\ UNCHANGED githubIdle

NextGithub == SendRequest \/ HandleResponse \/ LoopExhausted

SpecGithub == InitGithub /\ [][NextGithub]_vars


\* An attempt failed: a 5xx response or a request exception.
failed_attempt(response) ==
    \/ response.kind \in { "Timeout", "ConnectionError" }
    \/ response.kind = "response" /\ 500 <= response.status_code /\ response.status_code < 600

\* The number of requests among the first i entries of the log.
requests_until(i) == Cardinality({ j \in 1..i : github.log[j].e = "request" })

\* The entry at i of the log is a request whose response has been handled.
handled_request(i) ==
    /\ github.log[i].e = "request"
    /\ i < Len(github.log) \/ pc # "responded"

\* The request is sent again after the sleep at i: the next entry of the log
\* is a request, or the call is about to send one.
sent_again_after(i) ==
    \/ i < Len(github.log) /\ github.log[i + 1].e = "request"
    \/ i = Len(github.log) /\ github.result = "running" /\ pc = "request"
                           /\ requests_until(i) < 3

\* C19: an attempt that ends in a 5xx response or a request exception is
\* followed, when it is the k-th attempt and k < 3, by a sleep of the k-th
\* delay of 1s, 3s, 7s and then by the next request; no call sends more than
\* 3 requests; and when the 3rd attempt fails the call raises GitHubAPIError
\* without a further sleep.
C19_RetryWithBackoff ==
    /\ requests_until(Len(github.log)) <= 3
    /\ \A i \in 1..Len(github.log) :
          (handled_request(i) /\ failed_attempt(github.log[i].response)) =>
              \E k \in { requests_until(i) } :
                  IF k < 3
                  THEN /\ i < Len(github.log)
                       /\ github.log[i + 1] = slept(<< 1, 3, 7 >>[k])
                       /\ sent_again_after(i + 1)
                  ELSE /\ i = Len(github.log)
                       /\ github.result = "GitHubAPIError"

\* A call of three failed attempts, of both kinds, that has raised.
C19_Witness ==
    /\ pc = "finished"
    /\ github.result = "GitHubAPIError"
    /\ Len(github.log) = 5
    /\ \A i \in { 1, 3, 5 } : failed_attempt(github.log[i].response)
    /\ \E i, j \in { 1, 3, 5 } :
          /\ github.log[i].response.kind = "response"
          /\ github.log[j].response.kind = "Timeout"
    /\ github.log[2] = slept(1)
    /\ github.log[4] = slept(3)

\* The response of a request is a 403 or a 429.
rate_limited(response) ==
    response.kind = "response" /\ response.status_code \in { 403, 429 }

\* C20: a 403 or 429 whose reset is within 300s is followed by a sleep until
\* one second after the reset and then by the next request, on whichever
\* attempt it arrives; a 403 or 429 whose reset is 300s away or more, or is
\* not given, ends the call with GitHubRateLimitError without a sleep; and a
\* call that fails on a 403 or 429 fails with GitHubRateLimitError.
C20_RateLimitHandled ==
    /\ \A i \in 1..Len(github.log) :
          (handled_request(i) /\ rate_limited(github.log[i].response)) =>
              \E response \in { github.log[i].response } :
                  /\ (response.has_reset /\ response.wait > 0 /\ response.wait < 300) =>
                        /\ i < Len(github.log)
                        /\ github.log[i + 1] = slept(response.wait + 1)
                        /\ \/ i + 1 < Len(github.log) /\ github.log[i + 2].e = "request"
                           \/ i + 1 = Len(github.log) /\ github.result = "running"
                  /\ (~ response.has_reset \/ response.wait >= 300) =>
                        /\ i = Len(github.log)
                        /\ github.result = "GitHubRateLimitError"
    /\ (/\ github.result \in { "GitHubAPIError", "GitHubRateLimitError" }
        /\ \E i \in 1..Len(github.log) :
              /\ rate_limited(github.log[i].response)
              /\ \A j \in (i + 1)..Len(github.log) : github.log[j].e # "request")
          => github.result = "GitHubRateLimitError"


\* The response of a request is a client error other than 403 and 429.
client_error(response) ==
    /\ response.kind = "response"
    /\ 400 <= response.status_code /\ response.status_code < 500
    /\ response.status_code \notin { 403, 429 }

\* C29: a 4xx response other than 403 and 429 makes the call fail on that
\* attempt: no sleep is taken and the request is not sent again.
C29_ClientErrorFailsAtOnce ==
    \A i \in 1..Len(github.log) :
        (handled_request(i) /\ client_error(github.log[i].response)) =>
            /\ i = Len(github.log)
            /\ github.result \in { "GitHubAPIError", "GitHubRateLimitError" }


(***************************************************************************)
(* The GitHub client: github_client.list_folder_contents and its cache     *)
(***************************************************************************)

\* How many calls of list_folder_contents a behaviour makes.
MaxCalls == 3

\* A Python string, one character per element.
chars(text) ==
    CASE text = "o" -> << "o" >>
      [] text = "a" -> << "a" >>
      [] text = "a_b" -> << "a", "_", "b" >>
      [] text = "c" -> << "c" >>
      [] text = "b/c" -> << "b", "/", "c" >>
      [] text = "d" -> << "d" >>
      [] text = "main" -> << "m", "a", "i", "n" >>

\* The folders asked for: two different folders of two repositories of one
\* owner, and a third folder.
folder_request(owner, repo, folder_path, ref) ==
    [owner |-> chars(owner), repo |-> chars(repo),
     folder_path |-> chars(folder_path), ref |-> chars(ref)]

FolderRequests ==
    { folder_request("o", "a_b", "c", "main"),
      folder_request("o", "a", "b/c", "main"),
      folder_request("o", "a", "d", "main") }

\* github_client.py:199: cache_key = f"{owner}_{repo}_{folder_path.replace('/', '_')}_{ref}"
cache_key_of(request) ==
    request.owner \o << "_" >> \o request.repo \o << "_" >>
        \o replace(request.folder_path, "/", "_") \o << "_" >> \o request.ref

\* What the server holds at a path when a request arrives: a folder with a
\* listing, possibly without entries, or a file, for which the API answers
\* with an object.  The entity tag of a listing names the folder and the
\* listing; a response may come without the header.
Listings == { << >>, << "x.md" >>, << "x.md", "y.md" >> }
etag_of(request, listing) == [of |-> request, listing |-> listing]
NoEtag == [of |-> << >>, listing |-> << >>]

\* github_client.py:109-174: what _make_request_with_retry gives for a request
\* with the header If-None-Match (if_none_match # NoEtag) or without it: it raises, or
\* returns a 304 (only a request with the tag of the listing the server holds
\* gets one), or returns the response of a success.
raises(error) == [kind |-> error, is_list |-> FALSE, data |-> << >>, etag |-> NoEtag]
not_modified == [kind |-> "304", is_list |-> FALSE, data |-> << >>, etag |-> NoEtag]
success(data, etag) == [kind |-> "200", is_list |-> TRUE, data |-> data, etag |-> etag]
file_object == [kind |-> "200", is_list |-> FALSE, data |-> << >>, etag |-> NoEtag]

request_outcomes(request, if_none_match) ==
    { raises("GitHubAPIError"), raises("GitHubRateLimitError"), file_object }
        \cup { not_modified : listing \in { l \in Listings : if_none_match = etag_of(request, l) } }
        \cup { success(listing, etag) :
                  listing \in { l \in Listings : if_none_match # etag_of(request, l) },
                  etag \in { NoEtag } \cup { etag_of(request, l) : l \in Listings } }

\* github_client.py:56-71, _load_etag_cache: the tag of the file of the key.
load_etag_cache(cache, cache_key) ==
    IF cache_key \in DOMAIN cache THEN cache[cache_key].etag ELSE NoEtag

\* github_client.py:91-106, _load_cached_data: the data of the file of the key.
load_cached_data(cache, cache_key) ==
    IF cache_key \in DOMAIN cache THEN cache[cache_key].data ELSE << >>

\* github_client.py:74-88, _save_etag_cache: the file of the key rewritten.
save_etag_cache(cache, cache_key, etag, data) ==
    [ k \in DOMAIN cache \cup { cache_key } |->
        IF k = cache_key THEN [etag |-> etag, data |-> data] ELSE cache[k] ]

\* A cached body counts as present however many entries it has.
cached_data_present(cache, cache_key) == cache_key \in DOMAIN cache

\* github_client.py:214: "if cached_data:", which no data and an empty list
\* both fail.
cached_data_truthy(cache, cache_key) == load_cached_data(cache, cache_key) # << >>

\* The variables no step of list_folder_contents writes.
folderIdle == << urlVars, articles, dedupVars, quotaVars, driverVars,
                 scorer, evaluator, FEED_METRICS, sampler, run >>

NoCall == [request |-> << >>, cache_key |-> << >>, sent |-> NoEtag, requests |-> << >>,
           result |-> "none", data |-> << >>, cache_before |-> << >>, stored_before |-> 0,
           cache_after |-> << >>]

\* The cache directory is empty and no call has been made.
InitFolder ==
    /\ pc = "idle"
    /\ github = [cache |-> << >>, stored |-> << >>, calls |-> << >>, call |-> NoCall]
    /\ scorer = << >> /\ evaluator = << >> /\ FEED_METRICS = << >> /\ sampler = << >>
    /\ run = << >>
    /\ url = << >> /\ variant = << >> /\ kind = << >>
    /\ canon = << >> /\ canon_again = << >> /\ canon_variant = << >>
    /\ articles = << >>
    /\ seen_urls = << >> /\ seen_titles = << >> /\ unique_articles = << >>
    /\ min_quotas = << >> /\ max_quotas = << >> /\ target_count = 0 /\ selected = << >>
    /\ all_evaluated_articles = << >> /\ filtered_articles = << >> /\ drop_if = << >>

\* github_client.py:194-205: the key and the headers of a call.
StartCall ==
    /\ pc = "idle"
    /\ Len(github.calls) < MaxCalls
    /\ \E request \in FolderRequests :
          github' = [github EXCEPT
                        !.call = [request |-> request,
                                  cache_key |-> cache_key_of(request),
                                  sent |-> load_etag_cache(github.cache, cache_key_of(request)),
                                  requests |-> << >>,
                                  result |-> "running",
                                  data |-> << >>,
                                  cache_before |-> github.cache,
                                  stored_before |-> Len(github.stored),
                                  cache_after |-> << >>]]
    /\ pc' = "headers_built"
    /\ UNCHANGED folderIdle

\* github_client.py:222-235 and 237-243: the response parsed, validated and
\* cached, or the error raised; the call is over.
after_response(client, outcome) ==
    IF outcome.kind \notin { "200" }
    THEN [client EXCEPT !.call.result =
              IF outcome.kind = "GitHubRateLimitError" THEN outcome.kind ELSE "GitHubAPIError"]
    ELSE IF ~ outcome.is_list
    THEN [client EXCEPT !.call.result = "GitHubAPIError"]
    ELSE [client EXCEPT
             !.call.result = "returned",
             !.call.data = outcome.data,
             !.cache = IF outcome.etag # NoEtag
                       THEN save_etag_cache(@, client.call.cache_key, outcome.etag, outcome.data)
                       ELSE @,
             !.stored = IF outcome.etag # NoEtag
                        THEN Append(@, [cache_key |-> client.call.cache_key,
                                        request |-> client.call.request,
                                        etag |-> outcome.etag, data |-> outcome.data])
                        ELSE @]

\* The call is over: it is filed with the cache it leaves.
filed(client) ==
    [client EXCEPT !.calls = Append(@, [client.call EXCEPT !.cache_after = client.cache])]

\* github_client.py:207-235: the first request and what follows it, up to the
\* return, the raise or the second request.
FirstRequest ==
    /\ pc = "headers_built"
    /\ \E outcome \in request_outcomes(github.call.request, github.call.sent) :
       \E client \in { [github EXCEPT !.call.requests =
                           Append(@, [sent |-> github.call.sent, outcome |-> outcome.kind])] } :
          IF outcome.kind = "304"
          THEN IF cached_data_truthy(client.cache, client.call.cache_key)
               THEN /\ github' = filed([client EXCEPT
                                           !.call.result = "returned_cached",
                                           !.call.data = load_cached_data(client.cache,
                                                                          client.call.cache_key)])
                    /\ pc' = "idle"
               ELSE /\ github' = client
                    /\ pc' = "refetching"
          ELSE /\ github' = filed(after_response(client, outcome))
               /\ pc' = "idle"
    /\ UNCHANGED folderIdle

\* github_client.py:217-219 and what follows: the request without
\* If-None-Match.
SecondRequest ==
    /\ pc = "refetching"
    /\ \E outcome \in request_outcomes(github.call.request, NoEtag) :
       \E client \in { [github EXCEPT !.call.requests =
                           Append(@, [sent |-> NoEtag, outcome |-> outcome.kind])] } :
          github' = filed(after_response(client, outcome))
    /\ pc' = "idle"
    /\ UNCHANGED folderIdle

NextFolder == StartCall \/ FirstRequest \/ SecondRequest

SpecFolder == InitFolder /\ [][NextFolder]_vars


\* The calls made so far that are over.
failed_call(call) == call.result \in { "GitHubAPIError", "GitHubRateLimitError" }

\* The last body stored under a key before a call began, with its tag and
\* the request that stored it.
stores_before(call) ==
    SelectSeq(SubSeq(github.stored, 1, call.stored_before),
              LAMBDA store : store.cache_key = call.cache_key)

\* C30: two calls for different (owner, repo, folder_path, ref) never have the
\* same cache key; a body returned on a 304 was stored by an earlier call for
\* the same folder and ref; and a call that fails leaves the cache as it was.
C30_KeysApart ==
    /\ \A i, j \in 1..Len(github.calls) :
          github.calls[i].request # github.calls[j].request =>
              github.calls[i].cache_key # github.calls[j].cache_key
    /\ \A i \in 1..Len(github.calls) :
          /\ github.calls[i].result = "returned_cached" =>
                \E store \in { stores_before(github.calls[i]) } :
                    /\ store # << >>
                    /\ store[Len(store)].request = github.calls[i].request
                    /\ store[Len(store)].data = github.calls[i].data
          /\ failed_call(github.calls[i]) =>
                github.calls[i].cache_after = github.calls[i].cache_before

\* C21: a call sends If-None-Match exactly when a tag is cached for its key;
\* on a 304 with a body cached for the key it returns that body and makes no
\* other request; on a 304 with no body cached it makes a second request
\* without If-None-Match; and a body returned on a 304 is the body of the last
\* response stored under the key, stored with the tag that was sent.
C21_ConditionalListing ==
    \A i \in 1..Len(github.calls) :
    \E call \in { github.calls[i] } :
    \E answered_304 \in { call.requests # << >> /\ call.requests[1].outcome = "304" } :
        /\ call.requests # << >> =>
              (call.requests[1].sent # NoEtag <=> call.cache_key \in DOMAIN call.cache_before)
        /\ (answered_304 /\ cached_data_present(call.cache_before, call.cache_key)) =>
              /\ call.result = "returned_cached"
              /\ Len(call.requests) = 1
              /\ call.data = call.cache_before[call.cache_key].data
        /\ (answered_304 /\ ~ cached_data_present(call.cache_before, call.cache_key)) =>
              /\ Len(call.requests) = 2
              /\ call.requests[2].sent = NoEtag
        /\ call.result = "returned_cached" =>
              \E store \in { stores_before(call) } :
                  /\ store # << >>
                  /\ store[Len(store)].etag = call.requests[1].sent
                  /\ store[Len(store)].data = call.data


\* The article objects a dict holds, and those of a list.
held_by(dict) == { dict[n].a.id : n \in 1..Len(dict) }
listed_in(list) == { list[i].id : i \in 1..Len(list) }

\* C26: after deduplicate_articles has processed a list (any prefix of a
\* longer one), the articles of seen_urls are exactly the articles of the
\* output, and every article of seen_titles is curated and in the output.
C26_MapsMatchOutput ==
    pc = "deduplicated" =>
        /\ held_by(seen_urls) = listed_in(unique_articles)
        /\ \A n \in 1..Len(seen_titles) :
              /\ seen_titles[n].a.origin_type = "curated"
              /\ seen_titles[n].a.id \in listed_in(unique_articles)

\* C27: every input article with a URL that is not in the output collides
\* with an article that is in the output.
C27_RemovedForSurvivor ==
    pc = "deduplicated" =>
        \A i \in 1..Len(articles) :
            (articles[i].link # << >> /\ ~ in_list(articles[i], unique_articles)) =>
                \E j \in 1..Len(unique_articles) :
                    collides(articles[i], unique_articles[j])


\* The declared maximum of a topic is reached by the slate.
maximum_reached_in(slate, topic) ==
    \E i \in 1..Len(max_quotas) :
        /\ max_quotas[i].topic = topic
        /\ count_topic(slate, topic) >= max_quotas[i].count

\* C28: when the slate returned has fewer than target_count articles, every
\* pool article that is not in it has a topic whose count in the slate has
\* reached the declared maximum of the topic; and no article is in the slate
\* twice.
C28_NeverUnderFilled ==
    pc = "selected" =>
        /\ Len(selected) < target_count =>
              \A i \in 1..Len(articles) :
                  articles[i].id \in listed_in(selected)
                      \/ maximum_reached_in(selected, articles[i].evaluate.topic)
        /\ Cardinality(listed_in(selected)) = Len(selected)

\* C28 witness: a slate shorter than the target that leaves out an article
\* of the pool, of a topic at its maximum, and takes a lower-scored article of
\* another topic.
C28_Witness ==
    /\ pc = "selected"
    /\ Len(selected) < target_count
    /\ \E i, j \in 1..Len(articles) :
          /\ i < j
          /\ articles[i].id \notin listed_in(selected)
          /\ maximum_reached_in(selected, articles[i].evaluate.topic)
          /\ articles[j].id \in listed_in(selected)
          /\ articles[j].evaluate.topic # articles[i].evaluate.topic


(***************************************************************************)
(* Ingestion: rss.parse_rss_config with its three kinds of source,         *)
(* rss.select_top_articles, and the loop of                                 *)
(* mainflow.parse_daily_rss_article with the Telegram transform.           *)
(*                                                                         *)
(* A text is a sequence of characters; None is the record NoText.  The     *)
(* summary of an entry is the text its source gives for it: for a          *)
(* syndicated feed the plain text html2text makes of the entry's summary,  *)
(* for a section of a markdown file its full_summary, for an article of a  *)
(* JSON file its summary with the metadata lines.                          *)
(***************************************************************************)

\* rss.py:15
FOCUS_THRESHOLD == 0

\* How many entries a source holds at most.
MaxEntries == 4

NoText == [none |-> TRUE]
is_text(value) == value # NoText

\* "not summary": None and the empty text are false.
falsy(text) == text = NoText \/ text = << >>

NineChars == << "n", "i", "n", "e", " ", "o", "n", "l", "y" >>
TenChars == << "t", "e", "n", " ", "l", "e", "t", "t", "e", "r" >>
TcoChars == << "h", "t", "t", "p", "s", ":", "/", "/", "t", ".", "c", "o" >>

\* A summary of a Telegram post that names a short link, one that quotes it
\* (the line begins with ">"), and the prefix of a Telegram link.
ShortLinkPost == << "n", "e", "w", "\n" >> \o TcoChars \o << "/", "x" >>
QuotedLinkPost == << ">" >> \o TcoChars \o << "/", "x" >>
TelegramLink == << "h", "t", "t", "p", "s", ":", "/", "/", "t", ".", "m", "e", "/", "c" >>
PageLink == << "h", "t", "t", "p", "s", ":", "/", "/", "h", "/", "p" >>
telegram_prefix == << "h", "t", "t", "p", "s", ":", "/", "/", "t", ".", "m", "e", "/" >>

startswith(text, prefix) ==
    Len(text) >= Len(prefix) /\ SubSeq(text, 1, Len(prefix)) = prefix

\* An entry of a source.  An entry without a title has the title << >>, one
\* without a link the link << >>; focus and no_focus are the numbers of
\* keywords of MY_FOCUS and MY_NO_FOCUS its text holds.
entry_of(title, summary, link, date, focus, no_focus) ==
    [title |-> title, summary |-> summary, link |-> link, date |-> date,
     focus |-> focus, no_focus |-> no_focus]

PlainEntries ==
    { entry_of(<< "b" >>, TenChars, PageLink, 2, 1, 0),
      entry_of(<< "a" >>, TenChars, PageLink, 1, 0, 1) }

EntryKinds ==
    PlainEntries \cup
    { entry_of(<< "c" >>, NineChars, PageLink, 2, 0, 0),
      entry_of(<< "d" >>, << >>, PageLink, 1, 0, 0),
      entry_of(<< >>, TenChars, PageLink, 2, 0, 0),
      entry_of(<< "t" >>, ShortLinkPost, TelegramLink, 2, 0, 0),
      entry_of(<< "q" >>, QuotedLinkPost, TelegramLink, 2, 0, 0) }

\* What a source holds: up to two entries of any kind, or up to MaxEntries
\* plain entries.
Contents ==
    UNION { [1..n -> EntryKinds] : n \in 0..2 }
        \cup UNION { [1..n -> PlainEntries] : n \in 3..MaxEntries }

\* rss.py:138-154, compute_focus_score: two points for every keyword of
\* MY_FOCUS in the text, two off for every keyword of MY_NO_FOCUS.
compute_focus_score(entry) == 2 * entry.focus - 2 * entry.no_focus

\* The Article a parser makes of the entry at position i of source s.
ingested_article(s, i, entry, origin_type) ==
    [id |-> s * 10 + i, title |-> entry.title, summary |-> entry.summary,
     link |-> entry.link, date |-> entry.date, origin_type |-> origin_type,
     score |-> compute_focus_score(entry)]

\* rss.py:160-164: the key (score, date, title) of the sort, compared as
\* tuples.
key_less(a, b) ==
    \/ a.score < b.score
    \/ a.score = b.score /\ a.date < b.date
    \/ a.score = b.score /\ a.date = b.date /\ str_less(a.title, b.title)

\* sorted(candidates, key=..., reverse=True): highest key first, equal keys in
\* their order.
RECURSIVE sorted_by_key(_)
sorted_by_key(seq) ==
    IF seq = << >> THEN << >>
    ELSE Eval(CHOOSE i \in 1..Len(seq) :
                  /\ \A j \in 1..Len(seq) : ~ key_less(seq[i], seq[j])
                  /\ \A j \in 1..(i - 1) : key_less(seq[j], seq[i]),
              LAMBDA m :
                << seq[m] >>
                \o sorted_by_key(SubSeq(seq, 1, m - 1) \o SubSeq(seq, m + 1, Len(seq))))

\* rss.py:171: article.score >= FOCUS_THRESHOLD
meets_threshold(article) == article.score >= FOCUS_THRESHOLD

\* rss.py:165-173: the rest of the sorted candidates, while fewer than limit
\* are selected.
RECURSIVE select_rest(_, _, _)
select_rest(selected_so_far, rest, limit) ==
    IF rest = << >> \/ Len(selected_so_far) >= limit
    THEN selected_so_far
    ELSE select_rest(IF meets_threshold(Head(rest))
                     THEN Append(selected_so_far, Head(rest))
                     ELSE selected_so_far,
                     Tail(rest), limit)

\* rss.py:157-173
select_top_articles(candidates, limit) ==
    IF candidates = << >>
    THEN << >>
    ELSE Eval(sorted_by_key(candidates), LAMBDA sorted_candidates :
            IF limit <= 1
            THEN << sorted_candidates[1] >>
            ELSE select_rest(<< sorted_candidates[1] >>, Tail(sorted_candidates), limit))

\* What a parser gives: the list it returns, or the exception that leaves it.
returns(list) == [raised |-> "", list |-> list]
leaves_with(exception) == [raised |-> exception, list |-> << >>]

\* rss.py:570-633, gen_article_from for an entry of a feed: None (the record
\* NoArticle) without a link or with a summary under 10 characters.  The
\* entry has a title: rss_item["title"] has been read.
NoArticle == [id |-> 0]

gen_article_from(s, i, entry, origin_type) ==
    IF entry.link = << >> THEN NoArticle
    ELSE IF falsy(entry.summary) \/ Len(entry.summary) < 10 THEN NoArticle
    ELSE ingested_article(s, i, entry, origin_type)

\* rss.py:384-426: the entries of a feed, up to input_count candidates, then
\* the selection.  All entries are of the last 36 hours.  An entry without a
\* title ends the parser with the KeyError of rss.py:575.
RECURSIVE feed_candidates(_, _, _, _, _, _)
feed_candidates(s, entries, i, candidates, max_input, origin_type) ==
    IF i > Len(entries) THEN returns(candidates)
    ELSE IF entries[i].title = << >> THEN leaves_with("KeyError")
    ELSE Eval(gen_article_from(s, i, entries[i], origin_type), LAMBDA rss :
            IF rss = NoArticle
            THEN feed_candidates(s, entries, i + 1, candidates, max_input, origin_type)
            ELSE IF Len(candidates) + 1 >= max_input
            THEN returns(Append(candidates, rss))
            ELSE feed_candidates(s, entries, i + 1, Append(candidates, rss),
                                 max_input, origin_type))

parse_syndicated_feed(s, rss_config, entries) ==
    Eval(feed_candidates(s, entries, 1, << >>, get(rss_config, "input_count", 6),
                         IF rss_config.type = "curated_rss" THEN "curated" ELSE "raw"),
         LAMBDA parsed :
            IF parsed.raised # ""
            THEN parsed
            ELSE returns(select_top_articles(parsed.list, get(rss_config, "output_count", 3))))

\* The entries at the positions of a list that meet a condition, as Articles.
articles_where(s, entries, Keep(_)) ==
    Eval(SelectSeq([ i \in 1..Len(entries) |-> i ], LAMBDA i : Keep(entries[i])),
         LAMBDA kept : [ j \in 1..Len(kept) |->
                           ingested_article(s, kept[j], entries[kept[j]], "curated") ])

\* rss.py:176-244: every section of the file that has a title and a link
\* (rss.py:893-931) becomes an Article; then the selection.
parse_github_md_folder_rss(s, rss_config, entries) ==
    Eval(articles_where(s, entries, LAMBDA e : e.title # << >> /\ e.link # << >>),
         LAMBDA made :
            returns(select_top_articles(made, get(rss_config, "output_count", Len(made)))))

\* rss.py:247-338: every article of the file, up to input_count, that has a
\* title and a url becomes an Article; then the selection.
parse_ainews_daily_json_rss(s, rss_config, entries) ==
    Eval(articles_where(s, SubSeq(entries, 1, Min(Len(entries),
                                                  get(rss_config, "input_count", Len(entries)))),
                        LAMBDA e : e.title # << >> /\ e.link # << >>),
         LAMBDA made :
            returns(select_top_articles(made, get(rss_config, "output_count", Len(made)))))

\* rss.py:373-426, parse_rss_config on the entries the source holds.  A
\* source that cannot be fetched holds no entries: feedparser gives a feed
\* without items, parse_github_md_folder and parse_ainews_daily_json give
\* nothing (rss.py:1131-1141, 1019-1029).
parse_source(s, rss_config, entries) ==
    IF rss_config.type = "github_md_folder"
    THEN parse_github_md_folder_rss(s, rss_config, entries)
    ELSE IF rss_config.type = "github_json"
    THEN parse_ainews_daily_json_rss(s, rss_config, entries)
    ELSE parse_syndicated_feed(s, rss_config, entries)

\* rss.py:684-690: the lines of the summary that do not begin with ">" and
\* hold "https://t.co" followed by a character that is not a blank.
holds_tco_link(line) ==
    \E i \in 1..Len(line) :
        /\ i + Len(TcoChars) <= Len(line)
        /\ SubSeq(line, i, i + Len(TcoChars) - 1) = TcoChars
        /\ line[i + Len(TcoChars)] \notin { " ", "\t" }

has_tco_link(summary) ==
    \E n \in 1..Len(split(summary, "\n")) :
        /\ ~ startswith(split(summary, "\n")[n], << ">" >>)
        /\ holds_tco_link(split(summary, "\n")[n])

\* What following a short link gives: requests.head raises (rss.py:1146), or
\* the page is fetched and gives a text, or no text (rss.py:721-741).
Resolutions == { "ConnectionError" } \cup { "no text", "short text", "page text" }

fetched_summary(resolution) ==
    CASE resolution = "no text" -> NoText
      [] resolution = "short text" -> NineChars
      [] resolution = "page text" -> TenChars
      [] OTHER -> NoText

\* rss.py:679-698, transform_telegram_article, for one resolution of the
\* short link.
transform_telegram_article(article, resolution) ==
    IF is_text(article.summary) /\ has_tco_link(article.summary)
    THEN [article EXCEPT !.link = PageLink, !.summary = fetched_summary(resolution)]
    ELSE article

\* mainflow.py:170-173: the articles of one source appended to daily_rss, each
\* Telegram article transformed in place; the first short link that cannot
\* be followed ends the loop with its exception.
RECURSIVE appended(_, _, _)
appended(daily, rss_list, resolution) ==
    IF rss_list = << >> THEN returns(daily)
    ELSE IF ~ startswith(Head(rss_list).link, telegram_prefix)
    THEN appended(Append(daily, Head(rss_list)), Tail(rss_list), resolution)
    ELSE IF has_tco_link(Head(rss_list).summary) /\ resolution = "ConnectionError"
    THEN [raised |-> resolution, list |-> Append(daily, Head(rss_list))]
    ELSE appended(Append(daily, transform_telegram_article(Head(rss_list), resolution)),
                  Tail(rss_list), resolution)

\* The sources of a registry: a kind, and output_count or no output_count.
source_config(title, type, output_count) ==
    IF output_count < 0
    THEN [title |-> title, url |-> "u", type |-> type]
    ELSE [title |-> title, url |-> "u", type |-> type, output_count |-> output_count]

SourceKinds == { "rss", "github_md_folder", "github_json" }

IngestRegistries ==
    { << source_config("s1", t1, o1) >> : t1 \in SourceKinds, o1 \in { -1, 1, 2 } }
        \cup { << source_config("s1", t1, -1), source_config("s2", t2, o2) >> :
                  t1 \in SourceKinds, t2 \in SourceKinds, o2 \in { -1 } }

\* The variables no step of the ingestion writes.
ingestIdle == << runIdle, sampler, selected >>

\* mainflow.py:151-160: no cache file; the registry is loaded and daily_rss
\* is empty.  FEED_METRICS is as initialize_all_feed_metrics left it.
InitIngest ==
    /\ pc = "ingesting"
    /\ \E rss_items \in IngestRegistries :
          /\ run = [rss_items |-> rss_items, item |-> 1, daily_rss |-> << >>,
                    parsed |-> << >>, raised |-> ""]
          /\ FEED_METRICS = initialize_all_feed_metrics(rss_items)
    /\ sampler = << >>
    /\ scorer = << >> /\ evaluator = << >> /\ github = << >>
    /\ url = << >> /\ variant = << >> /\ kind = << >>
    /\ canon = << >> /\ canon_again = << >> /\ canon_variant = << >>
    /\ articles = << >>
    /\ seen_urls = << >> /\ seen_titles = << >> /\ unique_articles = << >>
    /\ min_quotas = << >> /\ max_quotas = << >> /\ target_count = 0 /\ selected = << >>
    /\ all_evaluated_articles = << >> /\ filtered_articles = << >> /\ drop_if = << >>

\* mainflow.py:162-174: one turn of the loop over the registry.  An exception
\* that leaves parse_rss_config or the transform leaves
\* parse_daily_rss_article and execute, which have no handler.
ParseSource ==
    /\ pc = "ingesting"
    /\ run.item <= Len(run.rss_items)
    /\ \E entries \in Contents, resolution \in Resolutions :
       \E rss_config \in { run.rss_items[run.item] } :
       \E parsed \in { parse_source(run.item, rss_config, entries) } :
          IF parsed.raised # ""
          THEN /\ run' = [run EXCEPT !.raised = parsed.raised,
                                     !.parsed = Append(@, [config |-> rss_config,
                                                           entries |-> entries,
                                                           rss_list |-> << >>])]
               /\ pc' = "terminated"
               /\ UNCHANGED FEED_METRICS
          ELSE \E after \in { appended(run.daily_rss, parsed.list, resolution) } :
               /\ run' = [run EXCEPT !.item = @ + 1,
                                     !.daily_rss = after.list,
                                     !.raised = after.raised,
                                     !.parsed = Append(@, [config |-> rss_config,
                                                           entries |-> entries,
                                                           rss_list |-> parsed.list])]
               /\ FEED_METRICS' =
                     IF get(rss_config, "title", "Unknown") \in DOMAIN FEED_METRICS
                     THEN [FEED_METRICS EXCEPT
                              ![get(rss_config, "title", "Unknown")].find_count =
                                  Len(parsed.list)]
                     ELSE FEED_METRICS
               /\ pc' = IF after.raised # "" THEN "terminated" ELSE "ingesting"
    /\ UNCHANGED ingestIdle

\* mainflow.py:175: return daily_rss
ReturnDailyRss ==
    /\ pc = "ingesting"
    /\ run.item > Len(run.rss_items)
    /\ pc' = "ingested"
    /\ UNCHANGED << run, FEED_METRICS, ingestIdle >>

NextIngest == ParseSource \/ ReturnDailyRss

SpecIngest == InitIngest /\ [][NextIngest]_vars


\* The entries of a parsed source that are candidates of its selection: with
\* a title and a link, and for a feed with a summary of 10 characters.
is_candidate(parsed, entry) ==
    /\ entry.title # << >> /\ entry.link # << >>
    /\ parsed.config.type \in { "github_md_folder", "github_json" }
          \/ (~ falsy(entry.summary) /\ Len(entry.summary) >= 10)

\* The key (focus, date, title) of an entry is at most that of an article.
at_most_key(entry, article) ==
    \/ compute_focus_score(entry) < article.score
    \/ /\ compute_focus_score(entry) = article.score
       /\ \/ entry.date < article.date
          \/ entry.date = article.date /\ ~ str_less(article.title, entry.title)

\* C24: a fetcher of any kind of source returns at most output_count
\* articles, 3 when the source configures none; the first returned article
\* is the maximum of the candidates under (focus, date, title) and every
\* further one has a focus of FOCUS_THRESHOLD or more.
C24_AtMostOutputCount ==
    \A n \in 1..Len(run.parsed) :
    \E parsed \in { run.parsed[n] } :
        /\ Len(parsed.rss_list) <= get(parsed.config, "output_count", 3)
        /\ parsed.rss_list # << >> =>
              \A i \in 1..Len(parsed.entries) :
                  is_candidate(parsed, parsed.entries[i]) =>
                      at_most_key(parsed.entries[i], parsed.rss_list[1])
        /\ \A j \in 2..Len(parsed.rss_list) : parsed.rss_list[j].score >= 0

\* A summary of at least 10 characters.
ten_or_more(summary) == is_text(summary) /\ Len(summary) >= 10

\* C25: every article a fetcher of any kind returns, and every article of
\* daily_rss after the Telegram transform, has a summary of at least 10
\* characters.
C25_SummaryTenOrMore ==
    /\ \A n \in 1..Len(run.parsed) :
          \A j \in 1..Len(run.parsed[n].rss_list) :
              ten_or_more(run.parsed[n].rss_list[j].summary)
    /\ pc # "terminated" =>
          \A j \in 1..Len(run.daily_rss) : ten_or_more(run.daily_rss[j].summary)

\* C22: no failure of a source ends parse_daily_rss_article: every
\* registered source is processed and the articles are returned.
C22_FailureContained ==
    /\ pc # "terminated"
    /\ pc = "ingested" => Len(run.parsed) = Len(run.rss_items)


(***************************************************************************)
(* The renderer: blog.make_daily_markdown_with                             *)
(*                                                                         *)
(* A rendered file is the record of its parts in the order they are        *)
(* written; two files are the same bytes when the records are equal.  The  *)
(* syllable that ends a Korean sentence is the character "da".             *)
(***************************************************************************)

\* How many articles a final list holds at most, and how many times it is
\* rendered.
MaxRendered == 2
MaxRenders == 2

\* blog.py:7-13
INSIGHT_FIELDS ==
    << "why_it_matters", "key_evidence", "who_should_care", "next_action", "comparison" >>

\* blog.py:15-21: the text of a template before {value} and after it.
INSIGHT_TEMPLATES(key) ==
    CASE key = "who_should_care" -> [before |-> << >>, after |-> << " ", "da" >>]
      [] OTHER -> [before |-> << key, " " >>, after |-> << >>]

endswith(text, suffix) ==
    Len(text) >= Len(suffix)
        /\ SubSeq(text, Len(text) - Len(suffix) + 1, Len(text)) = suffix

RECURSIVE rstrip_stops(_)
rstrip_stops(text) ==
    IF text # << >> /\ text[Len(text)] = "."
    THEN rstrip_stops(SubSeq(text, 1, Len(text) - 1))
    ELSE text

\* blog.py:166-170: the sentence of an insight.
insight_sentence(key, value) ==
    Eval(rstrip(lstrip(INSIGHT_TEMPLATES(key).before \o value \o INSIGHT_TEMPLATES(key).after)),
         LAMBDA sentence :
            IF ~ endswith(sentence, << "da", "." >>) /\ ~ endswith(sentence, << "da" >>)
            THEN rstrip_stops(sentence) \o << "." >>
            ELSE sentence)

\* random.Random(seed_value).sample(available, sample_count): the positions
\* drawn are a function of the seed and of the two sizes; the generator is
\* seeded from the characters of the text, so the function is the same in
\* every process.  The model draws a run of positions that begins where the
\* seed says.
seeded_sample(seed_value, n, sample_count) ==
    [ j \in 1..sample_count |-> ((Len(seed_value) + j) % n) + 1 ]

\* The text of a date, "%Y-%m-%d %H:%M:%S", of the model's days 1 and 2.
date_text(date) == IF date = 1 THEN << "d", "1" >> ELSE << "d", "1", "+" >>

\* blog.py:144-174, build_insight_lines: the sentences, in their order.
build_insight_lines(article) ==
    Eval(SelectSeq(INSIGHT_FIELDS, LAMBDA key : get(article.evaluate, key, << >>) # << >>),
         LAMBDA available :
            IF available = << >>
            THEN << >>
            ELSE Eval(seeded_sample(article.evaluate.title \o << "-" >> \o date_text(article.date),
                                    Len(available), Min(3, Len(available))),
                      LAMBDA drawn :
                        [ j \in 1..Len(drawn) |->
                            insight_sentence(available[drawn[j]],
                                             article.evaluate[available[drawn[j]]]) ]))

\* blog.py:100-136, make_articles_content: one block per article.
make_articles_content(list) ==
    [ i \in 1..Len(list) |->
        [title_line |-> list[i].evaluate.title,
         date |-> date_text(list[i].date),
         cover |-> list[i].cover_url,
         summary |-> list[i].evaluate.summary,
         insight_lines |-> build_insight_lines(list[i])] ]

\* blog.py:43-45: tags.extend(article.evaluate.get("tags", []))
RECURSIVE collected_tags(_)
collected_tags(list) ==
    IF list = << >> THEN << >>
    ELSE get(Head(list).evaluate, "tags", << >>) \o collected_tags(Tail(list))

\* The orders in which a process may iterate over set(tags): the hash of a
\* text differs from process to process, and with it the order of a set of
\* texts.
set_orders(tags) ==
    Eval({ tags[i] : i \in 1..Len(tags) }, LAMBDA distinct :
        { order \in [1..Cardinality(distinct) -> distinct] :
            \A i, j \in 1..Cardinality(distinct) : i # j => order[i] # order[j] })

\* blog.py:77-79, rectify_tag_value
rectify_tag_value(value) == replace(value, "/", "_")

\* blog.py:64-97, make_meta_data, for one reading of the clock and one order
\* of the set of tags.
make_meta_data(description, tags, now, order) ==
    [title |-> now.day,
     date |-> now,
     description |-> description,
     tags_field |-> IF tags # << >>
                    THEN [ i \in 1..Len(order) |-> rectify_tag_value(order[i]) ]
                    ELSE << >>]

\* blog.py:38-61: the content written, or nothing when there is no article.
make_daily_markdown_with(list, now, order) ==
    Eval([ i \in 1..Len(list) |-> list[i].evaluate.title ], LAMBDA article_titles :
        IF list = << >>
        THEN [written |-> FALSE]
        ELSE [written |-> TRUE,
              metadata |-> make_meta_data(article_titles, collected_tags(list), now, order),
              guide |-> article_titles,
              categories |-> make_articles_content(list)])

\* The final articles rendered.
rendered_article(title, date, tags, insights) ==
    [date |-> date, cover_url |-> << >>,
     evaluate |-> [title |-> title, summary |-> << "s" >>, tags |-> tags,
                   why_it_matters |-> IF insights >= 1 THEN << "w", "." >> ELSE << >>,
                   key_evidence |-> IF insights >= 2 THEN << "k", " ", "da" >> ELSE << >>,
                   who_should_care |-> IF insights >= 3 THEN << "c" >> ELSE << >>,
                   next_action |-> IF insights >= 4 THEN << "n" >> ELSE << >>]]

RenderedKinds ==
    { rendered_article(title, date, tags, insights) :
        title \in { << "a" >>, << "b", "c" >> },
        date \in 1..2,
        tags \in { << >>, << << "a", "i" >> >>, << << "a", "i" >>, << "l", "/", "m" >> >> },
        insights \in { 0, 2, 4 } }

Clock == { [day |-> 1, second |-> 1], [day |-> 1, second |-> 2] }

\* The variables no step of the renderer writes.
renderIdle == << runIdle, FEED_METRICS, sampler, selected >>

\* The final list of a run; nothing is rendered yet.
InitRender ==
    /\ pc = "rendering"
    /\ \E n \in 0..MaxRendered : \E list \in [1..n -> RenderedKinds] :
          run = [articles |-> list, renders |-> << >>]
    /\ FEED_METRICS = << >> /\ sampler = << >>
    /\ scorer = << >> /\ evaluator = << >> /\ github = << >>
    /\ url = << >> /\ variant = << >> /\ kind = << >>
    /\ canon = << >> /\ canon_again = << >> /\ canon_variant = << >>
    /\ articles = << >>
    /\ seen_urls = << >> /\ seen_titles = << >> /\ unique_articles = << >>
    /\ min_quotas = << >> /\ max_quotas = << >> /\ target_count = 0 /\ selected = << >>
    /\ all_evaluated_articles = << >> /\ filtered_articles = << >> /\ drop_if = << >>

\* blog.py:38-61: the list is rendered once more, by a process of its own, at
\* some reading of the clock.
Render ==
    /\ pc = "rendering"
    /\ Len(run.renders) < MaxRenders
    /\ \E now \in Clock, order \in set_orders(collected_tags(run.articles)) :
          run' = [run EXCEPT !.renders =
                     Append(@, [now |-> now,
                                content |-> make_daily_markdown_with(run.articles, now, order)])]
    /\ UNCHANGED << pc, renderIdle >>

NextRender == Render

SpecRender == InitRender /\ [][NextRender]_vars

\* C23: two renderings of the same final list of articles, made at the same
\* reading of the clock, give the same content: the same insights in the same
\* order and the same order of the tags of the front matter.
C23_RenderedTwiceTheSame ==
    \A i, j \in 1..Len(run.renders) :
        run.renders[i].now = run.renders[j].now =>
            run.renders[i].content = run.renders[j].content

====
